---- MODULE Spec2Model ----
(***************************************************************************)
(* Channel navigator and keyframe-selection transfer of graph_monkey.      *)
(*                                                                         *)
(* fcurves is the ordered channel list.  A channel is a record             *)
(*   [select, hide, lock, mute, kfs]                                       *)
(* and kfs is its time-sorted sequence of keyframe points                  *)
(*   [t, cp, lh, rh, bez]                                                  *)
(* (co[0], select_control_point, select_left_handle, select_right_handle,  *)
(* interpolation = "BEZIER").  Channel positions in the navigator          *)
(* (current_idx, scroll_offset, display indices) are 0-based as in the     *)
(* source; TLA+ sequences are 1-based, so channel i is fcurves[i + 1].     *)
(* Keyframe positions inside a channel are 1-based sequence positions.     *)
(***************************************************************************)
EXTENDS Integers, Sequences, FiniteSets, TLC

VARIABLES
    fcurves,          \* the document's channels seen by the operators
    phase,            \* navigator: "Idle", "Open", "Finished", "Cancelled"
    scroll_offset,    \* self.scroll_offset
    current_idx,      \* self.current_idx (0-based)
    dragging,         \* self.dragging
    drag_mode,        \* self.drag_mode: "none", "hide", "lock", "mute"
    drag_value,       \* self._drag_value
    pressed,          \* self.pressed
    geom,             \* layout computed by setup()
    original,         \* original_selection / original_hide / original_keyframe_selection
    prefs,            \* preferences read by the navigator
    handlers,         \* number of registered draw handlers
    focus,            \* what _apply_focus asked the view to frame
    raised,           \* the last engine call ended with an exception
    last,             \* log: last selection-engine call
    lastEvent,        \* log: last event handled by invoke/modal
    atInvoke,         \* log: fcurves as they were when invoke ran
    touched,          \* log: selection or visibility differed from atInvoke while open
    nEvents,          \* number of modal events handled
    nOps,             \* number of engine calls made
    report,           \* severity of the last self.report, "none" before any
    modal_handlers,   \* number of registered modal handlers
    removed,          \* channels of self.fcurves removed from the document
    staleUse,         \* log: a handler read or wrote a removed channel
    drawn,            \* what the last redraw drew
    toggles,          \* log: the handle toggles made, with the document before each
    device            \* host input as the pointer feed last reported it: x, y, ctrl held

vars == <<fcurves, phase, scroll_offset, current_idx, dragging, drag_mode,
          drag_value, pressed, geom, original, prefs, handlers, focus,
          raised, last, lastEvent, atInvoke, touched, nEvents, nOps,
          report, modal_handlers, removed, staleUse, drawn, toggles,
          device>>

navVars == <<phase, scroll_offset, current_idx, dragging, drag_mode,
             drag_value, pressed, geom, original, prefs, handlers, focus,
             lastEvent, atInvoke, touched, nEvents, report, modal_handlers,
             removed, staleUse, drawn, device>>

----------------------------------------------------------------------------
(* Bounds *)

MaxTime == 3
MaxSrcPoints == 2
MaxTgtPoints == 2
MaxOps == 1
MaxChannels == 2
MaxNavPoints == 2
MaxDisplay == 4
MaxEvents == 3
MaxScrollChannels == 10
MaxToggles == 2
MaxRemoved == 1
MaxPointerEvents == 3
MaxMoveChannels == 3

----------------------------------------------------------------------------
(* Small helpers *)

Abs(x) == IF x < 0 THEN 0 - x ELSE x

Min2(a, b) == IF a < b THEN a ELSE b

Max2(a, b) == IF a > b THEN a ELSE b

KfSelected(kf) == kf.cp \/ kf.lh \/ kf.rh

SetKf(fc, c, i, field, val) == [fc EXCEPT ![c].kfs[i][field] = val]

Triple(kf) == <<kf.cp, kf.lh, kf.rh>>

(* Same channel selection, visibility and per-point selection triples *)
SameSelection(fc, ref) ==
    /\ Len(fc) = Len(ref)
    /\ \A c \in 1..Len(fc) :
          /\ fc[c].select = ref[c].select
          /\ fc[c].hide = ref[c].hide
          /\ Len(fc[c].kfs) = Len(ref[c].kfs)
          /\ \A i \in 1..Len(fc[c].kfs) : Triple(fc[c].kfs[i]) = Triple(ref[c].kfs[i])

SamePoints(fc, ref) ==
    /\ Len(fc) = Len(ref)
    /\ \A c \in 1..Len(fc) :
          /\ Len(fc[c].kfs) = Len(ref[c].kfs)
          /\ \A i \in 1..Len(fc[c].kfs) : Triple(fc[c].kfs[i]) = Triple(ref[c].kfs[i])

----------------------------------------------------------------------------
(* dopesheet_helper.get_selected_keyframes: the selected points of a       *)
(* channel, in order, each with a copy of its three flags.                 *)

RECURSIVE CollectSelected(_, _)
CollectSelected(kfs, i) ==
    IF i > Len(kfs) THEN <<>>
    ELSE (IF KfSelected(kfs[i])
          THEN << [keyframe |-> i,
                   control_point |-> kfs[i].cp,
                   left_handle |-> kfs[i].lh,
                   right_handle |-> kfs[i].rh] >>
          ELSE <<>>) \o CollectSelected(kfs, i + 1)

get_selected_keyframes(kfs) == CollectSelected(kfs, 1)

----------------------------------------------------------------------------
(* min(keyframe_points, key=lambda k: abs(k.co[0] - frame)): Python's min  *)
(* scans left to right and keeps the first element with the smallest key.  *)

(* Variant: a later point with an equal distance replaces the best one *)
RECURSIVE MinScan_LastWins(_, _, _, _)
MinScan_LastWins(kfs, frame, i, best) ==
    IF i > Len(kfs) THEN best
    ELSE MinScan_LastWins(kfs, frame, i + 1,
                          IF Abs(kfs[i].t - frame) <= Abs(kfs[best].t - frame)
                          THEN i ELSE best)

RECURSIVE MinScan(_, _, _, _)
MinScan(kfs, frame, i, best) ==
    IF i > Len(kfs) THEN best
    ELSE MinScan(kfs, frame, i + 1,
                 IF Abs(kfs[i].t - frame) < Abs(kfs[best].t - frame)
                 THEN i ELSE best)

NearestKeyframe(kfs, frame) == MinScan(kfs, frame, 2, 1)

RECURSIVE NearestAll(_, _, _, _)
NearestAll(srcKfs, tgtKfs, selected, k) ==
    IF k > Len(selected) THEN <<>>
    ELSE <<NearestKeyframe(tgtKfs, srcKfs[selected[k].keyframe].t)>>
         \o NearestAll(srcKfs, tgtKfs, selected, k + 1)

----------------------------------------------------------------------------
(* keyframe_selection.transfer_keyframe_selection                          *)

TransferOne(fc, from, to, item, tgt, extend) ==
    LET src == item.keyframe
        f1 == IF ~extend THEN SetKf(fc, from, src, "cp", FALSE) ELSE fc
        f2 == SetKf(f1, to, tgt, "cp", item.control_point)
        bothBezier == f2[from].kfs[src].bez /\ f2[to].kfs[tgt].bez
        f3 == IF bothBezier /\ item.left_handle
              THEN LET g == SetKf(f2, to, tgt, "lh", TRUE)
                   IN IF ~extend THEN SetKf(g, from, src, "lh", FALSE) ELSE g
              ELSE f2
        f4 == IF bothBezier /\ item.right_handle
              THEN LET g == SetKf(f3, to, tgt, "rh", TRUE)
                   IN IF ~extend THEN SetKf(g, from, src, "rh", FALSE) ELSE g
              ELSE f3
    IN f4

RECURSIVE TransferZip(_, _, _, _, _, _, _)
TransferZip(fc, from, to, selected, targets, extend, k) ==
    IF k > Len(selected) \/ k > Len(targets) THEN fc
    ELSE TransferZip(TransferOne(fc, from, to, selected[k], targets[k], extend),
                     from, to, selected, targets, extend, k + 1)

transfer_keyframe_selection(fc, from, to, selected, targets, extend) ==
    TransferZip(fc, from, to, selected, targets, extend, 1)

----------------------------------------------------------------------------
(* keyframe_selection.process_keyframe_selection_for_vertical_move.        *)
(* The loop body recomputes the targets of all selected points and         *)
(* transfers all of them, once per selected point.  min() of an empty      *)
(* keyframe list raises ValueError; the channel flags are already written. *)

RECURSIVE VerticalLoop(_, _, _, _, _, _, _)
VerticalLoop(fc, from, to, selected, targets, extend, n) ==
    IF n = 0 THEN fc
    ELSE VerticalLoop(
             transfer_keyframe_selection(fc, from, to, selected, targets, extend),
             from, to, selected, targets, extend, n - 1)

(* Variant: the source channel stays selected when not extending *)
process_keyframe_selection_for_vertical_move_KeepsSource(fc, from, to, extend) ==
    LET selected == get_selected_keyframes(fc[from].kfs)
        f2 == [fc EXCEPT ![to].select = TRUE]
    IN IF Len(selected) = 0
       THEN [fc |-> f2, raised |-> FALSE, matches |-> <<>>]
       ELSE IF Len(fc[to].kfs) = 0
       THEN [fc |-> f2, raised |-> TRUE, matches |-> <<>>]
       ELSE LET targets == NearestAll(fc[from].kfs, fc[to].kfs, selected, 1)
            IN [fc |-> VerticalLoop(f2, from, to, selected, targets, extend,
                                    Len(selected)),
                raised |-> FALSE,
                matches |-> targets]

process_keyframe_selection_for_vertical_move(fc, from, to, extend) ==
    LET selected == get_selected_keyframes(fc[from].kfs)
        f1 == IF ~extend THEN [fc EXCEPT ![from].select = FALSE] ELSE fc
        f2 == [f1 EXCEPT ![to].select = TRUE]
    IN IF Len(selected) = 0
       THEN [fc |-> f2, raised |-> FALSE, matches |-> <<>>]
       ELSE IF Len(fc[to].kfs) = 0
       THEN [fc |-> f2, raised |-> TRUE, matches |-> <<>>]
       ELSE LET targets == NearestAll(fc[from].kfs, fc[to].kfs, selected, 1)
            IN [fc |-> VerticalLoop(f2, from, to, selected, targets, extend,
                                    Len(selected)),
                raised |-> FALSE,
                matches |-> targets]

----------------------------------------------------------------------------
(* channel_navigator._transfer_keyframe_selection                          *)

ClearPoints(kfs) ==
    [i \in 1..Len(kfs) |-> [kfs[i] EXCEPT !.cp = FALSE, !.lh = FALSE, !.rh = FALSE]]

NavTransferOne(fc, to, item, tgt) ==
    LET f1 == SetKf(fc, to, tgt, "cp", item.control_point)
        f2 == IF item.left_handle THEN SetKf(f1, to, tgt, "lh", TRUE) ELSE f1
        f3 == IF item.right_handle THEN SetKf(f2, to, tgt, "rh", TRUE) ELSE f2
    IN f3

RECURSIVE NavTransferLoop(_, _, _, _, _)
NavTransferLoop(fc, to, selected, targets, k) ==
    IF k > Len(selected) THEN fc
    ELSE NavTransferLoop(NavTransferOne(fc, to, selected[k], targets[k]),
                         to, selected, targets, k + 1)

_transfer_keyframe_selection(fc, from, to) ==
    LET selected == get_selected_keyframes(fc[from].kfs)
    IN IF from = to
       THEN [fc |-> fc, matches |-> <<>>]
       ELSE IF Len(selected) = 0
       THEN [fc |-> fc, matches |-> <<>>]
       ELSE LET f1 == [fc EXCEPT ![from].select = FALSE,
                                 ![from].kfs = ClearPoints(fc[from].kfs)]
                f2 == [f1 EXCEPT ![to].select = TRUE]
            IN IF Len(fc[to].kfs) = 0
               THEN [fc |-> f2, matches |-> <<>>]
               ELSE LET targets == NearestAll(fc[from].kfs, fc[to].kfs, selected, 1)
                    IN [fc |-> NavTransferLoop(f2, to, selected, targets, 1),
                        matches |-> targets]

----------------------------------------------------------------------------
(* keyframe_selection: horizontal move.  The selected points of a channel  *)
(* are handled from the latest to the earliest when moving forward and     *)
(* from the earliest to the latest when moving backward (point times are   *)
(* strictly increasing, so the sort is the list or its reverse); each one  *)
(* hands its selection to the point found by binary_search_keyframe.       *)

Reverse(s) == [i \in 1..Len(s) |-> s[Len(s) + 1 - i]]

RECURSIVE BinarySearchLoop(_, _, _, _)
BinarySearchLoop(kfs, target_frame, left, right) ==
    IF left > right THEN [found |-> 0, left |-> left, right |-> right]
    ELSE LET mid == (left + right) \div 2
         IN IF kfs[mid].t = target_frame
            THEN [found |-> mid, left |-> left, right |-> right]
            ELSE IF kfs[mid].t < target_frame
            THEN BinarySearchLoop(kfs, target_frame, mid + 1, right)
            ELSE BinarySearchLoop(kfs, target_frame, left, mid - 1)

(* The index of the point found, 0 for None *)
binary_search_keyframe(kfs, target_frame, direction) ==
    LET r == BinarySearchLoop(kfs, target_frame, 1, Len(kfs))
    IN IF r.found # 0 THEN r.found
       ELSE IF direction = "forward" /\ r.left <= Len(kfs) THEN r.left
       ELSE IF direction = "backward" /\ r.right >= 1 THEN r.right
       ELSE 0

RECURSIVE HorizontalItems(_, _, _, _, _, _)
HorizontalItems(fc, c, ordered, direction, extend, k) ==
    IF k > Len(ordered) THEN fc
    ELSE LET item == ordered[k]
             src_frame == fc[c].kfs[item.keyframe].t
             target_frame == IF direction = "forward" THEN src_frame + 1
                             ELSE src_frame - 1
             next_keyframe == binary_search_keyframe(fc[c].kfs, target_frame, direction)
             f1 == IF next_keyframe # 0
                   THEN transfer_keyframe_selection(fc, c, c, <<item>>,
                                                    <<next_keyframe>>, extend)
                   ELSE fc
         IN HorizontalItems(f1, c, ordered, direction, extend, k + 1)

RECURSIVE process_keyframe_selection_for_horizontal_move(_, _, _, _)
process_keyframe_selection_for_horizontal_move(fc, c, direction, extend) ==
    IF c > Len(fc) THEN fc
    ELSE LET selected == get_selected_keyframes(fc[c].kfs)
             ordered == IF direction = "forward" THEN Reverse(selected) ELSE selected
             f1 == IF fc[c].select /\ Len(selected) > 0
                   THEN HorizontalItems(fc, c, ordered, direction, extend, 1)
                   ELSE fc
         IN process_keyframe_selection_for_horizontal_move(f1, c + 1, direction, extend)

move_keyframe_selection_horizontally(fc, direction, extend) ==
    IF \E c \in 1..Len(fc) : fc[c].select
    THEN process_keyframe_selection_for_horizontal_move(fc, 1, direction, extend)
    ELSE fc

----------------------------------------------------------------------------
(* handle_selection: toggle of the left or right handle selection on the   *)
(* selected points of the selected visible channels.                       *)

(* Variant: a channel with no selected point answers false *)
all_keyframes_have_selected_handle_for_fcurve_NeedsPoint(kfs, handle_direction) ==
    /\ \E i \in 1..Len(kfs) : KfSelected(kfs[i])
    /\ \A i \in 1..Len(kfs) :
          KfSelected(kfs[i]) =>
              IF handle_direction = "Left" THEN kfs[i].lh ELSE kfs[i].rh

all_keyframes_have_selected_handle_for_fcurve(kfs, handle_direction) ==
    \A i \in 1..Len(kfs) :
        KfSelected(kfs[i]) =>
            IF handle_direction = "Left" THEN kfs[i].lh ELSE kfs[i].rh

(* Variant: the fallback clears the handle without selecting the control *)
update_keyframe_handle_selection_NoFallback(kf, handle_direction, extend, all_selected) ==
    IF handle_direction = "Left"
    THEN IF all_selected
         THEN [kf EXCEPT !.lh = FALSE]
         ELSE IF ~extend
         THEN [kf EXCEPT !.rh = FALSE, !.cp = FALSE, !.lh = TRUE]
         ELSE [kf EXCEPT !.lh = TRUE]
    ELSE IF all_selected
         THEN [kf EXCEPT !.rh = FALSE]
         ELSE IF ~extend
         THEN [kf EXCEPT !.lh = FALSE, !.cp = FALSE, !.rh = TRUE]
         ELSE [kf EXCEPT !.rh = TRUE]

update_keyframe_handle_selection(kf, handle_direction, extend, all_selected) ==
    IF handle_direction = "Left"
    THEN IF all_selected
         THEN [kf EXCEPT !.lh = FALSE, !.cp = TRUE]
         ELSE IF ~extend
         THEN [kf EXCEPT !.rh = FALSE, !.cp = FALSE, !.lh = TRUE]
         ELSE [kf EXCEPT !.lh = TRUE]
    ELSE IF all_selected
         THEN [kf EXCEPT !.rh = FALSE, !.cp = TRUE]
         ELSE IF ~extend
         THEN [kf EXCEPT !.lh = FALSE, !.cp = FALSE, !.rh = TRUE]
         ELSE [kf EXCEPT !.rh = TRUE]

(* Variant: only the first selected point of the channel is updated *)
toggle_keyframe_handle_selection_for_fcurve_FirstOnly(kfs, handle_direction, extend, all_selected) ==
    [i \in 1..Len(kfs) |->
        IF KfSelected(kfs[i]) /\ \A j \in 1..(i - 1) : ~KfSelected(kfs[j])
        THEN update_keyframe_handle_selection(kfs[i], handle_direction, extend,
                                              all_selected)
        ELSE kfs[i]]

toggle_keyframe_handle_selection_for_fcurve(kfs, handle_direction, extend, all_selected) ==
    [i \in 1..Len(kfs) |->
        IF KfSelected(kfs[i])
        THEN update_keyframe_handle_selection(kfs[i], handle_direction, extend,
                                              all_selected)
        ELSE kfs[i]]

(* context.visible_fcurves: the channels that are not hidden *)
get_visible_fcurves(fc) == {c \in 1..Len(fc) : ~fc[c].hide}

(* The channels of a set as a list in channel order *)
RECURSIVE ChannelList(_, _, _)
ChannelList(S, c, n) ==
    IF c > n THEN <<>>
    ELSE (IF c \in S THEN <<c>> ELSE <<>>) \o ChannelList(S, c + 1, n)

(* all(...) over the selected channels, computed before any point changes *)
AllSelected(fc, selected_fcurves, handle_direction) ==
    \A k \in 1..Len(selected_fcurves) :
        all_keyframes_have_selected_handle_for_fcurve(fc[selected_fcurves[k]].kfs,
                                                      handle_direction)

(* for fcurve in selected_fcurves: the channels in list order from k on *)
RECURSIVE ToggleLoop(_, _, _, _, _, _)
ToggleLoop(fc, selected_fcurves, handle_direction, extend, all_selected, k) ==
    IF k > Len(selected_fcurves) THEN fc
    ELSE LET c == selected_fcurves[k]
         IN ToggleLoop(
                [fc EXCEPT ![c].kfs =
                    toggle_keyframe_handle_selection_for_fcurve(
                        fc[c].kfs, handle_direction, extend, all_selected)],
                selected_fcurves, handle_direction, extend, all_selected, k + 1)

(* Variant: the decision is taken again before each channel, on the points *)
(* as the channels before it left them                                     *)
RECURSIVE ToggleSelected_QueryPerChannel(_, _, _, _, _)
ToggleSelected_QueryPerChannel(fc, selected_fcurves, handle_direction, extend, k) ==
    IF k > Len(selected_fcurves) THEN fc
    ELSE LET c == selected_fcurves[k]
         IN ToggleSelected_QueryPerChannel(
                [fc EXCEPT ![c].kfs =
                    toggle_keyframe_handle_selection_for_fcurve(
                        fc[c].kfs, handle_direction, extend,
                        AllSelected(fc, selected_fcurves, handle_direction))],
                selected_fcurves, handle_direction, extend, k + 1)

(* The query over the whole list, then the loop over it from position k *)
ToggleSelected(fc, selected_fcurves, handle_direction, extend, k) ==
    ToggleLoop(fc, selected_fcurves, handle_direction, extend,
               AllSelected(fc, selected_fcurves, handle_direction), k)

(* Variant: every visible channel is toggled, selected or not *)
toggle_handle_selection_AllVisible(fc, handle_direction, extend) ==
    LET visible_fcurves == get_visible_fcurves(fc)
        selected_fcurves == ChannelList(visible_fcurves, 1, Len(fc))
    IN IF visible_fcurves = {} THEN fc
       ELSE ToggleSelected(fc, selected_fcurves, handle_direction, extend, 1)

toggle_handle_selection(fc, handle_direction, extend) ==
    LET visible_fcurves == get_visible_fcurves(fc)
        selected_fcurves ==
            ChannelList({c \in visible_fcurves : fc[c].select}, 1, Len(fc))
    IN IF visible_fcurves = {} THEN fc
       ELSE IF selected_fcurves = <<>> THEN fc
       ELSE ToggleSelected(fc, selected_fcurves, handle_direction, extend, 1)

----------------------------------------------------------------------------
(* keyframe_selection.move_channel_selection_vertically.  all_fcurves is   *)
(* the list of visible channels; selected_indices are positions in it,     *)
(* taken once before the loop and sorted from the last to the first when   *)
(* moving downward.  A ValueError of a single move ends the whole call.    *)

RECURSIVE VerticalChannels(_, _, _, _, _, _)
VerticalChannels(fc, all_fcurves, selected_indices, direction, extend, k) ==
    IF k > Len(selected_indices) THEN [fc |-> fc, raised |-> FALSE]
    ELSE LET current_index == selected_indices[k]
             next_index == IF direction = "downward" THEN current_index + 1
                           ELSE current_index - 1
         IN IF 1 <= next_index /\ next_index <= Len(all_fcurves)
            THEN LET r == process_keyframe_selection_for_vertical_move(
                              fc, all_fcurves[current_index],
                              all_fcurves[next_index], extend)
                 IN IF r.raised THEN [fc |-> r.fc, raised |-> TRUE]
                    ELSE VerticalChannels(r.fc, all_fcurves, selected_indices,
                                          direction, extend, k + 1)
            ELSE VerticalChannels(fc, all_fcurves, selected_indices,
                                  direction, extend, k + 1)

move_channel_selection_vertically(fc, direction, extend) ==
    LET all_fcurves == ChannelList(get_visible_fcurves(fc), 1, Len(fc))
        num_fcurves == Len(all_fcurves)
        ascending == ChannelList({i \in 1..num_fcurves : fc[all_fcurves[i]].select},
                                 1, num_fcurves)
        selected_indices == IF direction = "downward" THEN Reverse(ascending)
                            ELSE ascending
    IN IF num_fcurves = 0 THEN [fc |-> fc, raised |-> FALSE]
       ELSE IF Len(ascending) = 0 THEN [fc |-> fc, raised |-> FALSE]
       ELSE VerticalChannels(fc, all_fcurves, selected_indices, direction,
                             extend, 1)

----------------------------------------------------------------------------
(* Navigator configuration.  ChannelNavigatorSettings defaults with        *)
(* ui_scale = 1; the region is the editor region the popup is clamped to.  *)

BoxHeight == 28

BoxWidth == 280

IconMargin == 20

RegionMargin == 10

MinDisplay == 3

RegionW == 400

RegionH == 300

InvokeKey == "Y"

NoGeom ==
    [left |-> 0, bottom |-> 0, right |-> 0, top |-> 0, display_count |-> 0,
     needs_scroll |-> FALSE, hide_zone_x |-> 0, lock_zone_x |-> 0,
     mute_zone_x |-> 0]

NoOriginal == [selection |-> <<>>, hide |-> <<>>, keyframe_selection |-> <<>>]

NoOp == [op |-> "none", from |-> 0, to |-> 0, extend |-> FALSE, matches |-> <<>>]

NoEvent == [type |-> "NONE", value |-> "NOTHING", ctrl |-> FALSE]

----------------------------------------------------------------------------
(* GRAPH_OT_channel_navigator helpers *)

_find_active_index(fc) ==
    IF \E i \in 1..Len(fc) : fc[i].select
    THEN (CHOOSE i \in 1..Len(fc) :
              fc[i].select /\ \A j \in 1..(i - 1) : ~fc[j].select) - 1
    ELSE 0

_store_keyframe_selection(fc) ==
    [c \in 1..Len(fc) |->
        [i \in 1..Len(fc[c].kfs) |->
            [control |-> fc[c].kfs[i].cp,
             left |-> fc[c].kfs[i].lh,
             right |-> fc[c].kfs[i].rh]]]

StoreOriginal(fc) ==
    [selection |-> [c \in 1..Len(fc) |-> fc[c].select],
     hide |-> [c \in 1..Len(fc) |-> fc[c].hide],
     keyframe_selection |-> _store_keyframe_selection(fc)]

(* Variant: the window starts at the active channel instead of centering it *)
setup_TopAligned(L, max_display, org_idx, mx, my) ==
    LET display_count == Min2(L, max_display)
        total_height == BoxHeight * display_count
        max_scroll == Max2(0, L - display_count)
        offset == Min2(Max2(0, org_idx), max_scroll)
        display_idx == Max2(0, Min2(display_count - 1 - (org_idx - offset),
                                    display_count - 1))
        bottom0 == my - display_idx * BoxHeight - (BoxHeight \div 2)
        left0 == mx - (BoxWidth \div 2)
        left1 == IF left0 < RegionMargin THEN RegionMargin ELSE left0
        left2 == IF left1 + BoxWidth > RegionW - RegionMargin
                 THEN RegionW - RegionMargin - BoxWidth ELSE left1
        bottom1 == IF bottom0 < RegionMargin THEN RegionMargin ELSE bottom0
        bottom2 == IF bottom1 + total_height > RegionH - RegionMargin
                   THEN RegionH - RegionMargin - total_height ELSE bottom1
        right == left2 + BoxWidth
    IN [geom |-> [left |-> left2, bottom |-> bottom2, right |-> right,
                  top |-> bottom2 + total_height,
                  display_count |-> display_count,
                  needs_scroll |-> (L > max_display),
                  hide_zone_x |-> right - IconMargin,
                  lock_zone_x |-> right - IconMargin * 2,
                  mute_zone_x |-> right - IconMargin * 3],
        scroll_offset |-> offset]

setup(L, max_display, org_idx, mx, my) ==
    LET display_count == Min2(L, max_display)
        total_height == BoxHeight * display_count
        half_display == display_count \div 2
        max_scroll == Max2(0, L - display_count)
        offset == Min2(Max2(0, org_idx - half_display), max_scroll)
        display_idx == Max2(0, Min2(display_count - 1 - (org_idx - offset),
                                    display_count - 1))
        bottom0 == my - display_idx * BoxHeight - (BoxHeight \div 2)
        left0 == mx - (BoxWidth \div 2)
        left1 == IF left0 < RegionMargin THEN RegionMargin ELSE left0
        left2 == IF left1 + BoxWidth > RegionW - RegionMargin
                 THEN RegionW - RegionMargin - BoxWidth ELSE left1
        bottom1 == IF bottom0 < RegionMargin THEN RegionMargin ELSE bottom0
        bottom2 == IF bottom1 + total_height > RegionH - RegionMargin
                   THEN RegionH - RegionMargin - total_height ELSE bottom1
        right == left2 + BoxWidth
    IN [geom |-> [left |-> left2, bottom |-> bottom2, right |-> right,
                  top |-> bottom2 + total_height,
                  display_count |-> display_count,
                  needs_scroll |-> (L > max_display),
                  hide_zone_x |-> right - IconMargin,
                  lock_zone_x |-> right - IconMargin * 2,
                  mute_zone_x |-> right - IconMargin * 3],
        scroll_offset |-> offset]

(* Variant: the row number is not checked against the number of rows *)
_get_hovered_display_idx_NoRowCheck(g, x, y) ==
    IF ~(g.left <= x /\ x <= g.right) THEN -1
    ELSE IF ~(g.bottom <= y /\ y <= g.top) THEN -1
    ELSE (y - g.bottom) \div BoxHeight

_get_hovered_display_idx(g, x, y) ==
    IF ~(g.left <= x /\ x <= g.right) THEN -1
    ELSE IF ~(g.bottom <= y /\ y <= g.top) THEN -1
    ELSE LET display_idx == (y - g.bottom) \div BoxHeight
         IN IF 0 <= display_idx /\ display_idx < g.display_count
            THEN display_idx ELSE -1

(* Variant: the rows are numbered from the top of the window *)
_display_idx_to_fcurve_idx_TopDown(s, g, display_idx) ==
    LET actual_idx == s.scroll_offset + display_idx
    IN IF 0 <= actual_idx /\ actual_idx < Len(s.fc) THEN actual_idx ELSE -1

_display_idx_to_fcurve_idx(s, g, display_idx) ==
    LET actual_idx == s.scroll_offset + (g.display_count - 1 - display_idx)
    IN IF 0 <= actual_idx /\ actual_idx < Len(s.fc) THEN actual_idx ELSE -1

(* Variant: the rows are counted from the top of the window *)
_get_fcurve_at_display_idx_TopDown(s, g, display_idx) ==
    LET actual_idx == s.scroll_offset + display_idx
    IN IF 0 <= actual_idx /\ actual_idx < Len(s.fc) THEN actual_idx ELSE -1

_get_fcurve_at_display_idx(s, g, display_idx) ==
    LET actual_idx == s.scroll_offset + (g.display_count - 1 - display_idx)
    IN IF 0 <= actual_idx /\ actual_idx < Len(s.fc) THEN actual_idx ELSE -1

(* Variant: the hovered channel becomes current without a transfer *)
_change_channel_NoTransfer(s, new_idx) ==
    IF new_idx = s.current_idx THEN s
    ELSE IF new_idx < 0 \/ new_idx >= Len(s.fc) THEN s
    ELSE [s EXCEPT !.current_idx = new_idx]

_change_channel(s, new_idx) ==
    IF new_idx = s.current_idx THEN s
    ELSE IF new_idx < 0 \/ new_idx >= Len(s.fc) THEN s
    ELSE [s EXCEPT
            !.fc = _transfer_keyframe_selection(s.fc, s.current_idx + 1,
                                                new_idx + 1).fc,
            !.current_idx = new_idx]

(* Variant: a single visible channel counts as solo whichever it is *)
_solo_channel_AnySingle(s, target) ==
    LET fc == s.fc
        visible_count == Cardinality({c \in 1..Len(fc) : ~fc[c].hide})
        is_solo == visible_count = 1
    IN [s EXCEPT
          !.fc = [c \in 1..Len(fc) |->
                    [fc[c] EXCEPT
                       !.hide = IF is_solo THEN FALSE ELSE c # target + 1,
                       !.select = (c = target + 1)]],
          !.current_idx = target]

_solo_channel(s, target) ==
    LET fc == s.fc
        visible_count == Cardinality({c \in 1..Len(fc) : ~fc[c].hide})
        is_solo == visible_count = 1 /\ ~fc[target + 1].hide
    IN [s EXCEPT
          !.fc = [c \in 1..Len(fc) |->
                    [fc[c] EXCEPT
                       !.hide = IF is_solo THEN FALSE ELSE c # target + 1,
                       !.select = (c = target + 1)]],
          !.current_idx = target]

(* Variant: the drag carries the value the flag had before the click *)
_handle_click_OldValue(s, g, ev, hovered_display_idx) ==
    IF hovered_display_idx = -1 THEN s
    ELSE LET fc == _get_fcurve_at_display_idx(s, g, hovered_display_idx)
         IN IF fc = -1 THEN s
            ELSE IF ev.x >= g.hide_zone_x
            THEN [s EXCEPT !.fc[fc + 1].hide = ~@,
                           !.dragging = TRUE, !.drag_mode = "hide",
                           !.drag_value = s.fc[fc + 1].hide]
            ELSE IF ev.x >= g.lock_zone_x
            THEN [s EXCEPT !.fc[fc + 1].lock = ~@,
                           !.dragging = TRUE, !.drag_mode = "lock",
                           !.drag_value = s.fc[fc + 1].lock]
            ELSE IF ev.x >= g.mute_zone_x
            THEN [s EXCEPT !.fc[fc + 1].mute = ~@,
                           !.dragging = TRUE, !.drag_mode = "mute",
                           !.drag_value = s.fc[fc + 1].mute]
            ELSE IF ev.ctrl THEN _solo_channel(s, fc)
            ELSE s

_handle_click(s, g, ev, hovered_display_idx) ==
    IF hovered_display_idx = -1 THEN s
    ELSE LET fc == _get_fcurve_at_display_idx(s, g, hovered_display_idx)
         IN IF fc = -1 THEN s
            ELSE IF ev.x >= g.hide_zone_x
            THEN [s EXCEPT !.fc[fc + 1].hide = ~@,
                           !.dragging = TRUE, !.drag_mode = "hide",
                           !.drag_value = ~s.fc[fc + 1].hide]
            ELSE IF ev.x >= g.lock_zone_x
            THEN [s EXCEPT !.fc[fc + 1].lock = ~@,
                           !.dragging = TRUE, !.drag_mode = "lock",
                           !.drag_value = ~s.fc[fc + 1].lock]
            ELSE IF ev.x >= g.mute_zone_x
            THEN [s EXCEPT !.fc[fc + 1].mute = ~@,
                           !.dragging = TRUE, !.drag_mode = "mute",
                           !.drag_value = ~s.fc[fc + 1].mute]
            ELSE IF ev.ctrl THEN _solo_channel(s, fc)
            ELSE s

(* Variant: a row crossed during a drag has its flag negated *)
_apply_drag_toggle_Flips(s, fc) ==
    IF s.drag_mode \in {"hide", "lock", "mute"}
    THEN [s EXCEPT !.fc[fc + 1][s.drag_mode] = ~@]
    ELSE s

_apply_drag_toggle(s, fc) ==
    IF s.drag_mode \in {"hide", "lock", "mute"}
    THEN [s EXCEPT !.fc[fc + 1][s.drag_mode] = s.drag_value]
    ELSE s

_toggle_property_for_current(s, prop_name) ==
    [s EXCEPT !.fc[s.current_idx + 1][prop_name] = ~@]

(* Variant: the hide flags are not put back *)
_restore_original_state_KeepsHide(fc, orig) ==
    [c \in 1..Len(fc) |->
        [fc[c] EXCEPT
           !.select = IF c <= Len(orig.selection) THEN orig.selection[c] ELSE @,
           !.kfs = [i \in 1..Len(fc[c].kfs) |->
                      IF c <= Len(orig.keyframe_selection)
                         /\ i <= Len(orig.keyframe_selection[c])
                      THEN [fc[c].kfs[i] EXCEPT
                              !.cp = orig.keyframe_selection[c][i].control,
                              !.lh = orig.keyframe_selection[c][i].left,
                              !.rh = orig.keyframe_selection[c][i].right]
                      ELSE fc[c].kfs[i]]]]

_restore_original_state(fc, orig) ==
    [c \in 1..Len(fc) |->
        [fc[c] EXCEPT
           !.select = IF c <= Len(orig.selection) THEN orig.selection[c] ELSE @,
           !.hide = IF c <= Len(orig.hide) THEN orig.hide[c] ELSE @,
           !.kfs = [i \in 1..Len(fc[c].kfs) |->
                      IF c <= Len(orig.keyframe_selection)
                         /\ i <= Len(orig.keyframe_selection[c])
                      THEN [fc[c].kfs[i] EXCEPT
                              !.cp = orig.keyframe_selection[c][i].control,
                              !.lh = orig.keyframe_selection[c][i].left,
                              !.rh = orig.keyframe_selection[c][i].right]
                      ELSE fc[c].kfs[i]]]]

(* Variant: the frames of hidden selected channels are counted too *)
_apply_focus_CountsHidden(fc, auto_focus) ==
    IF ~auto_focus THEN "none"
    ELSE LET selected_fcurves == {c \in 1..Len(fc) : fc[c].select /\ ~fc[c].hide}
         IN IF selected_fcurves = {} THEN "none"
            ELSE LET unique_frames ==
                         UNION {{fc[c].kfs[i].t :
                                   i \in {j \in 1..Len(fc[c].kfs) : fc[c].kfs[j].cp}} :
                                c \in {d \in 1..Len(fc) : fc[d].select}}
                     use_frame_range == Cardinality(unique_frames) < 2
                 IN IF use_frame_range THEN "frame_range" ELSE "keyframes"

(* _apply_focus: the use_frame_range argument handed to                   *)
(* graph.view_selected_curves_range, or "none" when it returns before.     *)
_apply_focus(fc, auto_focus) ==
    IF ~auto_focus THEN "none"
    ELSE LET selected_fcurves == {c \in 1..Len(fc) : fc[c].select /\ ~fc[c].hide}
         IN IF selected_fcurves = {} THEN "none"
            ELSE LET unique_frames ==
                         UNION {{fc[c].kfs[i].t :
                                   i \in {j \in 1..Len(fc[c].kfs) : fc[c].kfs[j].cp}} :
                                c \in selected_fcurves}
                     use_frame_range == Cardinality(unique_frames) < 2
                 IN IF use_frame_range THEN "frame_range" ELSE "keyframes"

----------------------------------------------------------------------------
(* Framing *)

(* graph.view_selected_curves_range: execute().  scene is the frame range  *)
(* <<frame_start, frame_end>> of the scene; selected_curves is             *)
(* context.selected_editable_fcurves.  The result is [fc, viewed]: the     *)
(* channels when execute returns, and the channels as graph.view_selected  *)
(* saw them.                                                               *)
selected_editable_fcurves(fc) ==
    {c \in 1..Len(fc) : fc[c].select /\ ~fc[c].hide /\ ~fc[c].lock}

original_selection(fc, selected_curves) ==
    [c \in selected_curves |->
        [i \in 1..Len(fc[c].kfs) |->
            [control |-> fc[c].kfs[i].cp, left |-> fc[c].kfs[i].lh,
             right |-> fc[c].kfs[i].rh]]]

per_channel_single(fc, selected_curves) ==
    \A c \in selected_curves :
        Cardinality({i \in 1..Len(fc[c].kfs) :
                        fc[c].kfs[i].cp \/ fc[c].kfs[i].lh \/ fc[c].kfs[i].rh}) = 1

(* Lines 85-91: every point of the selected curves gets in_range in all    *)
(* three flags                                                             *)
SelectInRange(fc, selected_curves, frame_start, frame_end) ==
    [c \in 1..Len(fc) |->
        IF c \notin selected_curves THEN fc[c]
        ELSE [fc[c] EXCEPT !.kfs =
                [i \in 1..Len(fc[c].kfs) |->
                    LET in_range == /\ frame_start <= fc[c].kfs[i].t
                                    /\ fc[c].kfs[i].t <= frame_end
                    IN [fc[c].kfs[i] EXCEPT !.cp = in_range, !.lh = in_range,
                                            !.rh = in_range]]]]

(* Lines 99-106: the saved flags are written back *)
RestoreSelection(fc, selected_curves, saved) ==
    [c \in 1..Len(fc) |->
        IF c \notin selected_curves \/ c \notin DOMAIN saved THEN fc[c]
        ELSE [fc[c] EXCEPT !.kfs =
                [i \in 1..Len(fc[c].kfs) |->
                    IF i <= Len(saved[c])
                    THEN [fc[c].kfs[i] EXCEPT !.cp = saved[c][i].control,
                                              !.lh = saved[c][i].left,
                                              !.rh = saved[c][i].right]
                    ELSE fc[c].kfs[i]]]]

(* Lines 42-51 and 85-91: the points the operator selects for the host's   *)
(* view_selected                                                           *)
TemporarySelection(fc, selected_curves, use_frame_range, scene) ==
    IF use_frame_range
    THEN SelectInRange(fc, selected_curves, scene[1], scene[2])
    ELSE [c \in 1..Len(fc) |->
            IF c \notin selected_curves THEN fc[c]
            ELSE [fc[c] EXCEPT !.kfs =
                    [i \in 1..Len(fc[c].kfs) |->
                        [fc[c].kfs[i] EXCEPT !.cp = TRUE, !.lh = TRUE,
                                             !.rh = TRUE]]]]

(* Variant: only the control flag is written back *)
view_selected_curves_range_ControlOnly(fc, use_frame_range, scene) ==
    LET selected_curves == selected_editable_fcurves(fc)
        viewed == TemporarySelection(fc, selected_curves, use_frame_range, scene)
    IN IF selected_curves = {} \/ ~per_channel_single(fc, selected_curves)
       THEN [fc |-> fc, viewed |-> fc]
       ELSE [fc |-> [c \in 1..Len(fc) |->
                       [viewed[c] EXCEPT !.kfs =
                           [i \in 1..Len(fc[c].kfs) |->
                               [viewed[c].kfs[i] EXCEPT !.cp = fc[c].kfs[i].cp]]]],
             viewed |-> viewed]

view_selected_curves_range(fc, use_frame_range, scene) ==
    LET selected_curves == selected_editable_fcurves(fc)
        saved == original_selection(fc, selected_curves)
    IN IF selected_curves = {} THEN [fc |-> fc, viewed |-> fc]
       ELSE IF per_channel_single(fc, selected_curves)
       THEN LET viewed == TemporarySelection(fc, selected_curves,
                                             use_frame_range, scene)
            IN [fc |-> RestoreSelection(viewed, selected_curves, saved),
                viewed |-> viewed]
       ELSE [fc |-> fc, viewed |-> fc]

(* The frame ranges a scene may have *)
SceneRanges == {r \in (1..MaxNavPoints) \X (1..MaxNavPoints) : r[1] <= r[2]}

(* The channels after _apply_focus: lines 573-578 run the framing operator *)
(* unless _apply_focus returned before                                     *)
FocusedCurves(fc, auto_focus, scene) ==
    LET plan == _apply_focus(fc, auto_focus)
    IN IF plan = "none" THEN fc
       ELSE view_selected_curves_range(fc, plan = "frame_range", scene).fc

----------------------------------------------------------------------------
(* modal(): the part after the cancel and confirm checks (scroll, keys,    *)
(* click, drag, hover), as one function of the operator's fields.          *)

NavState ==
    [fc |-> fcurves, scroll_offset |-> scroll_offset,
     current_idx |-> current_idx, dragging |-> dragging,
     drag_mode |-> drag_mode, drag_value |-> drag_value, pressed |-> pressed]

(* Variant: scrolling down is limited by the list length only *)
ModalScroll_ListLength(s, g, ev) ==
    IF ev.type = "WHEELUPMOUSE" /\ g.needs_scroll
    THEN [s EXCEPT !.scroll_offset = Max2(0, s.scroll_offset - 1)]
    ELSE IF ev.type = "WHEELDOWNMOUSE" /\ g.needs_scroll
    THEN [s EXCEPT !.scroll_offset = Min2(Len(s.fc) - 1, s.scroll_offset + 1)]
    ELSE s

ModalScroll(s, g, ev) ==
    IF ev.type = "WHEELUPMOUSE" /\ g.needs_scroll
    THEN [s EXCEPT !.scroll_offset = Max2(0, s.scroll_offset - 1)]
    ELSE IF ev.type = "WHEELDOWNMOUSE" /\ g.needs_scroll
    THEN [s EXCEPT !.scroll_offset =
                      Min2(Len(s.fc) - g.display_count, s.scroll_offset + 1)]
    ELSE s

ModalKeys(s, ev) ==
    IF ev.type = "H" /\ ev.value = "PRESS"
    THEN _toggle_property_for_current(s, "hide")
    ELSE IF ev.type = "L" /\ ev.value = "PRESS"
    THEN _toggle_property_for_current(s, "lock")
    ELSE IF ev.type = "M" /\ ev.value = "PRESS"
    THEN _toggle_property_for_current(s, "mute")
    ELSE s

(* Variant: a release leaves the drag mode as it is *)
ModalMouse_KeepsMode(s, g, ev, hovered_display_idx) ==
    IF ev.type = "LEFTMOUSE" /\ ev.value = "PRESS"
    THEN _handle_click([s EXCEPT !.pressed = TRUE], g, ev, hovered_display_idx)
    ELSE IF ev.type = "LEFTMOUSE" /\ ev.value = "RELEASE"
    THEN [s EXCEPT !.pressed = FALSE, !.dragging = FALSE]
    ELSE s

ModalMouse(s, g, ev, hovered_display_idx) ==
    IF ev.type = "LEFTMOUSE" /\ ev.value = "PRESS"
    THEN _handle_click([s EXCEPT !.pressed = TRUE], g, ev, hovered_display_idx)
    ELSE IF ev.type = "LEFTMOUSE" /\ ev.value = "RELEASE"
    THEN [s EXCEPT !.pressed = FALSE, !.dragging = FALSE, !.drag_mode = "none"]
    ELSE s

ModalDrag(s, g, hovered_display_idx) ==
    IF s.pressed /\ s.dragging /\ s.drag_mode # "none" /\ hovered_display_idx # -1
    THEN LET fc == _get_fcurve_at_display_idx(s, g, hovered_display_idx)
         IN IF fc # -1 THEN _apply_drag_toggle(s, fc) ELSE s
    ELSE s

ModalHover(s, g, ev, hovered_display_idx) ==
    IF hovered_display_idx # -1 /\ ~s.dragging /\ ev.x < g.mute_zone_x
    THEN LET new_idx == _display_idx_to_fcurve_idx(s, g, hovered_display_idx)
         IN IF new_idx # -1 /\ new_idx # s.current_idx
            THEN _change_channel(s, new_idx) ELSE s
    ELSE s

ModalRunning(s, g, ev) ==
    LET s1 == ModalScroll(s, g, ev)
        hovered_display_idx == _get_hovered_display_idx(g, ev.x, ev.y)
        s2 == ModalKeys(s1, ev)
        s3 == ModalMouse(s2, g, ev, hovered_display_idx)
        s4 == ModalDrag(s3, g, hovered_display_idx)
    IN ModalHover(s4, g, ev, hovered_display_idx)

LogEvent(ev) == [type |-> ev.type, value |-> ev.value, ctrl |-> ev.ctrl]

----------------------------------------------------------------------------
(* invoke() *)

(* Variant: the handlers are registered before the channel list is looked at *)
Invoke_HandlersFirst(mx, my) ==
    /\ phase = "Idle"
    /\ last.op = "none"
    /\ lastEvent' = [NoEvent EXCEPT !.type = "INVOKE"]
    /\ IF Len(fcurves) = 0
       THEN /\ report' = "WARNING"
            /\ phase' = "Cancelled"
            /\ handlers' = handlers + 1
            /\ modal_handlers' = modal_handlers + 1
            /\ UNCHANGED <<fcurves, scroll_offset, current_idx, dragging,
                           drag_mode, drag_value, pressed, geom, original,
                           prefs, focus, raised, last, atInvoke,
                           touched, nEvents, nOps>>
       ELSE LET org_idx == _find_active_index(fcurves)
                lay == setup(Len(fcurves), prefs.max_display, org_idx, mx, my)
            IN /\ phase' = "Open"
               /\ scroll_offset' = lay.scroll_offset
               /\ geom' = lay.geom
               /\ current_idx' = org_idx
               /\ dragging' = FALSE
               /\ drag_mode' = "none"
               /\ pressed' = FALSE
               /\ original' = StoreOriginal(fcurves)
               /\ atInvoke' = fcurves
               /\ touched' = FALSE
               /\ handlers' = handlers + 1
               /\ modal_handlers' = modal_handlers + 1
               /\ UNCHANGED <<fcurves, drag_value, prefs, focus, raised, last,
                              nEvents, nOps, report>>
    /\ device' = (IF Len(fcurves) = 0 THEN device
                  ELSE [device EXCEPT !.x = mx, !.y = my])
    /\ UNCHANGED <<removed, staleUse, drawn, toggles>>

Invoke(mx, my) ==
    /\ phase = "Idle"
    /\ last.op = "none"
    /\ lastEvent' = [NoEvent EXCEPT !.type = "INVOKE"]
    /\ IF Len(fcurves) = 0
       THEN /\ report' = "WARNING"
            /\ phase' = "Cancelled"
            /\ UNCHANGED <<fcurves, scroll_offset, current_idx, dragging,
                           drag_mode, drag_value, pressed, geom, original,
                           prefs, handlers, focus, raised, last, atInvoke,
                           touched, nEvents, nOps, modal_handlers>>
       ELSE LET org_idx == _find_active_index(fcurves)
                lay == setup(Len(fcurves), prefs.max_display, org_idx, mx, my)
            IN /\ phase' = "Open"
               /\ scroll_offset' = lay.scroll_offset
               /\ geom' = lay.geom
               /\ current_idx' = org_idx
               /\ dragging' = FALSE
               /\ drag_mode' = "none"
               /\ pressed' = FALSE
               /\ original' = StoreOriginal(fcurves)
               /\ atInvoke' = fcurves
               /\ touched' = FALSE
               /\ handlers' = handlers + 1
               /\ modal_handlers' = modal_handlers + 1
               /\ UNCHANGED <<fcurves, drag_value, prefs, focus, raised, last,
                              nEvents, nOps, report>>
    /\ device' = (IF Len(fcurves) = 0 THEN device
                  ELSE [device EXCEPT !.x = mx, !.y = my])
    /\ UNCHANGED <<removed, staleUse, drawn, toggles>>

----------------------------------------------------------------------------
(* Variant: a press of the left button cancels too *)
IsCancel_OrLeftPress(ev) ==
    ev.type \in {"RIGHTMOUSE", "ESC"} \/ (ev.type = "LEFTMOUSE" /\ ev.value = "PRESS")

IsCancel(ev) == ev.type \in {"RIGHTMOUSE", "ESC"}

(* Variant: the release confirms only with Ctrl held *)
IsConfirm_NeedsCtrl(ev, key) == ev.type = key /\ ev.value = "RELEASE" /\ ev.ctrl

IsConfirm(ev, key) == ev.type = key /\ ev.value = "RELEASE"

(* modal().  An event is [type, value, ctrl, x, y, auto_focus]: the host   *)
(* event, and the auto_focus_on_channel_change preference as it stands     *)
(* when the handler runs (only _apply_focus reads it).                     *)

(* The channels (0-based) whose attributes the handler reads or writes *)
AllChannels(s) == 0..(Len(s.fc) - 1)

ModalAccess(s, g, ev) ==
    IF IsCancel(ev) THEN AllChannels(s)
    ELSE IF IsConfirm(ev, InvokeKey)
    THEN (IF ev.auto_focus THEN AllChannels(s) ELSE {})
    ELSE LET s1 == ModalScroll(s, g, ev)
             hovered_display_idx == _get_hovered_display_idx(g, ev.x, ev.y)
             keys == IF ev.type \in {"H", "L", "M"} /\ ev.value = "PRESS"
                     THEN {s1.current_idx} ELSE {}
             s2 == ModalKeys(s1, ev)
             row == IF hovered_display_idx # -1
                    THEN _get_fcurve_at_display_idx(s2, g, hovered_display_idx)
                    ELSE -1
             click == IF ev.type = "LEFTMOUSE" /\ ev.value = "PRESS" /\ row # -1
                      THEN (IF ev.x >= g.mute_zone_x THEN {row}
                            ELSE IF ev.ctrl THEN AllChannels(s) ELSE {})
                      ELSE {}
             s3 == ModalMouse(s2, g, ev, hovered_display_idx)
             drag == IF s3.pressed /\ s3.dragging /\ s3.drag_mode # "none"
                        /\ row # -1
                     THEN {row} ELSE {}
             s4 == ModalDrag(s3, g, hovered_display_idx)
             new_idx == IF hovered_display_idx # -1
                        THEN _display_idx_to_fcurve_idx(s4, g, hovered_display_idx)
                        ELSE -1
             hover == IF hovered_display_idx # -1 /\ ~s4.dragging
                         /\ ev.x < g.mute_zone_x
                         /\ new_idx # -1 /\ new_idx # s4.current_idx
                      THEN {s4.current_idx, new_idx} ELSE {}
         IN keys \cup click \cup drag \cup hover

(* Variant: the draw handler stays registered *)
stop_mod_KeepsHandler(registered) == registered

(* stop_mod: the draw handler is removed; registered is the number of draw *)
(* handlers of this operator the editor holds                              *)
stop_mod(registered) == registered - 1

(* What the handler does when every reference it uses is alive *)
ModalOutcome(ev) ==
    IF IsCancel(ev)
    THEN /\ fcurves' = _restore_original_state(fcurves, original)
         /\ handlers' = stop_mod(handlers)
         /\ modal_handlers' = modal_handlers - 1
         /\ phase' = "Cancelled"
         /\ UNCHANGED <<scroll_offset, current_idx, dragging, drag_mode,
                        drag_value, pressed, focus, prefs, touched>>
    ELSE IF IsConfirm(ev, InvokeKey)
    THEN /\ focus' = _apply_focus(fcurves, ev.auto_focus)
         /\ \E scene \in SceneRanges :
               fcurves' = FocusedCurves(fcurves, ev.auto_focus, scene)
         /\ prefs' = [prefs EXCEPT !.auto_focus = ev.auto_focus]
         /\ handlers' = stop_mod(handlers)
         /\ modal_handlers' = modal_handlers - 1
         /\ phase' = "Finished"
         /\ UNCHANGED <<scroll_offset, current_idx, dragging,
                        drag_mode, drag_value, pressed, touched>>
    ELSE LET s == ModalRunning(NavState, geom, ev)
         IN /\ fcurves' = s.fc
            /\ scroll_offset' = s.scroll_offset
            /\ current_idx' = s.current_idx
            /\ dragging' = s.dragging
            /\ drag_mode' = s.drag_mode
            /\ drag_value' = s.drag_value
            /\ pressed' = s.pressed
            /\ touched' = (touched \/ ~SameSelection(s.fc, atInvoke))
            /\ UNCHANGED <<phase, handlers, modal_handlers, focus, prefs>>

(* A reference to a channel that was removed from the document dangles:    *)
(* using it either goes through as if the channel were alive or ends the   *)
(* host process.                                                           *)
Crash ==
    /\ phase' = "Crashed"
    /\ UNCHANGED <<fcurves, scroll_offset, current_idx, dragging, drag_mode,
                   drag_value, pressed, focus, prefs, touched, handlers,
                   modal_handlers>>

Modal(ev) ==
    /\ phase = "Open"
    /\ lastEvent' = LogEvent(ev)
    /\ LET stale == removed # {}
                    /\ (ModalAccess(NavState, geom, ev) \cap removed) # {}
       IN /\ staleUse' = (staleUse \/ stale)
          /\ (ModalOutcome(ev) \/ (stale /\ Crash))
    /\ UNCHANGED <<geom, original, raised, last, atInvoke, nOps, report,
                   removed, drawn, toggles>>

----------------------------------------------------------------------------
(* _draw_callback, _draw_texts, _draw_scroll_indicators: the rows drawn    *)
(* from the operator's fields, bottom row first, and the two scroll        *)
(* indicators (0 when not drawn); the operator's fields after the call.    *)

NoRow ==
    [channel |-> -1, background |-> "none", border |-> FALSE, text |-> "none",
     icons |-> <<FALSE, FALSE, FALSE>>]

DrawRow(s, g, display_idx) ==
    LET fc == _get_fcurve_at_display_idx(s, g, display_idx)
        is_current == _display_idx_to_fcurve_idx(s, g, display_idx) = s.current_idx
        ch == s.fc[fc + 1]
    IN IF fc = -1 THEN NoRow ELSE
       [channel |-> fc,
        background |-> IF ch.mute THEN "muted"
                       ELSE IF ch.hide THEN "hidden" ELSE "normal",
        border |-> is_current,
        text |-> IF ch.hide THEN "hidden"
                 ELSE IF ch.mute THEN "muted"
                 ELSE IF is_current THEN "current" ELSE "normal",
        icons |-> <<ch.mute, ch.lock, ch.hide>>]

NoFrame == [rows |-> <<>>, above |-> 0, below |-> 0]

(* Variant: the redraw follows the pointer and moves the current row *)
_draw_callback_MovesCurrent(s, g) ==
    [state |-> [s EXCEPT !.current_idx = s.scroll_offset],
     frame |-> [rows |-> [d \in 1..g.display_count |-> DrawRow(s, g, d - 1)],
                above |-> IF g.needs_scroll THEN s.scroll_offset ELSE 0,
                below |-> IF g.needs_scroll
                          THEN Len(s.fc) - g.display_count - s.scroll_offset
                          ELSE 0]]

_draw_callback(s, g) ==
    [state |-> s,
     frame |-> [rows |-> [d \in 1..g.display_count |-> DrawRow(s, g, d - 1)],
                above |-> IF g.needs_scroll THEN s.scroll_offset ELSE 0,
                below |-> IF g.needs_scroll
                          THEN Len(s.fc) - g.display_count - s.scroll_offset
                          ELSE 0]]

DrawAccess(s, g) ==
    {_get_fcurve_at_display_idx(s, g, d) : d \in 0..(g.display_count - 1)} \ {-1}

(* The host calls the registered draw handler *)
Redraw ==
    /\ phase = "Open"
    /\ handlers > 0
    /\ LET stale == removed # {}
                    /\ (DrawAccess(NavState, geom) \cap removed) # {}
           d == _draw_callback(NavState, geom)
       IN /\ staleUse' = (staleUse \/ stale)
          /\ \/ /\ drawn' = d.frame
                /\ fcurves' = d.state.fc
                /\ scroll_offset' = d.state.scroll_offset
                /\ current_idx' = d.state.current_idx
                /\ dragging' = d.state.dragging
                /\ drag_mode' = d.state.drag_mode
                /\ drag_value' = d.state.drag_value
                /\ pressed' = d.state.pressed
                /\ UNCHANGED <<phase, focus, prefs, touched, handlers,
                               modal_handlers>>
             \/ (stale /\ Crash /\ UNCHANGED drawn)
    /\ UNCHANGED <<geom, original, raised, last, lastEvent, atInvoke, nEvents,
                   nOps, report, removed, toggles, device>>

(* A channel held in self.fcurves is removed from the document by          *)
(* something other than the navigator; self.fcurves is not rebuilt.        *)
RemoveChannel ==
    \E c \in 0..(Len(fcurves) - 1) :
        /\ phase = "Open"
        /\ c \notin removed
        /\ Cardinality(removed) < MaxRemoved
        /\ removed' = removed \cup {c}
        /\ UNCHANGED <<fcurves, phase, scroll_offset, current_idx, dragging,
                       drag_mode, drag_value, pressed, geom, original, prefs,
                       handlers, focus, raised, last, lastEvent, atInvoke,
                       touched, nEvents, nOps, report, modal_handlers,
                       staleUse, drawn, toggles, device>>

(* Pointer positions: one inside every zone of every displayed row, and    *)
(* one outside the popup.                                                  *)
RowY(g, d) == g.bottom + d * BoxHeight + 1

Rows(g) == 0..(g.display_count - 1)

TextPos(g) == {<<g.left + 1, RowY(g, d)>> : d \in Rows(g)}

IconPos(g) ==
    {<<x, RowY(g, d)>> :
        x \in {g.mute_zone_x, g.lock_zone_x, g.hide_zone_x}, d \in Rows(g)}

Outside(g) == <<g.right + 1, g.top + 1>>

Positions(g) == TextPos(g) \cup IconPos(g) \cup {Outside(g)}

Event(type, value, ctrl, pos) ==
    [type |-> type, value |-> value, ctrl |-> ctrl, x |-> pos[1], y |-> pos[2],
     auto_focus |-> TRUE]

Bounded(A) ==
    nEvents < MaxEvents /\ A /\ nEvents' = nEvents + 1 /\ UNCHANGED device

CancelEvent ==
    \E type \in {"RIGHTMOUSE", "ESC"} :
        Bounded(Modal(Event(type, "PRESS", FALSE, Outside(geom))))

ConfirmEvent ==
    \E ctrl \in BOOLEAN, af \in BOOLEAN :
        Bounded(Modal([Event(InvokeKey, "RELEASE", ctrl, Outside(geom))
                          EXCEPT !.auto_focus = af]))

WheelEvent ==
    \E type \in {"WHEELUPMOUSE", "WHEELDOWNMOUSE"} :
        Bounded(Modal(Event(type, "PRESS", FALSE, Outside(geom))))

KeyEvent ==
    \E type \in {"H", "L", "M"} :
        Bounded(Modal(Event(type, "PRESS", FALSE, Outside(geom))))

(* The host delivers presses and releases of the button alternately, so a  *)
(* press arrives when the button is up and a release when it is down.      *)
PressEvent ==
    \E pos \in Positions(geom) :
        \E ctrl \in (IF pos \in TextPos(geom) THEN BOOLEAN ELSE {FALSE}) :
            ~pressed /\ Bounded(Modal(Event("LEFTMOUSE", "PRESS", ctrl, pos)))

ReleaseEvent ==
    \E pos \in Positions(geom) :
        pressed /\ Bounded(Modal(Event("LEFTMOUSE", "RELEASE", FALSE, pos)))

MoveEvent ==
    \E pos \in Positions(geom) :
        Bounded(Modal(Event("MOUSEMOVE", "NOTHING", FALSE, pos)))

InvokeMice == {<<200, 150>>}

InvokeEvent == \E m \in InvokeMice : Invoke(m[1], m[2])

(* Wheel and pointer events with no bound on their number *)
ScrollWheel ==
    \E type \in {"WHEELUPMOUSE", "WHEELDOWNMOUSE"},
       pos \in TextPos(geom) \cup {Outside(geom)} :
        Modal(Event(type, "PRESS", FALSE, pos)) /\ UNCHANGED <<nEvents, device>>

ScrollMove ==
    \E pos \in TextPos(geom) \cup {Outside(geom)} :
        Modal(Event("MOUSEMOVE", "NOTHING", FALSE, pos)) /\ UNCHANGED <<nEvents, device>>

(* The pointer feed.  The host reports every change of the pointer         *)
(* position with an event, so a button, wheel or key event arrives at the  *)
(* position of the event before it (at first, the position of the invoke); *)
(* the Ctrl flag of an event is the state of the Ctrl key, whose presses   *)
(* and releases are events themselves.                                     *)
DevicePos == <<device.x, device.y>>

Tracked(A, dev) ==
    nEvents < MaxPointerEvents /\ A /\ nEvents' = nEvents + 1 /\ device' = dev

PointerInvokeMice == {<<200, 150>>, <<RegionW - IconMargin, 2 * RegionMargin>>}

PointerInvoke == \E m \in PointerInvokeMice : Invoke(m[1], m[2])

PointerMove ==
    \E pos \in Positions(geom) :
        Tracked(Modal(Event("MOUSEMOVE", "NOTHING", device.ctrl, pos)),
                [device EXCEPT !.x = pos[1], !.y = pos[2]])

PointerPress ==
    ~pressed /\ Tracked(Modal(Event("LEFTMOUSE", "PRESS", device.ctrl, DevicePos)),
                        device)

PointerRelease ==
    pressed /\ Tracked(Modal(Event("LEFTMOUSE", "RELEASE", device.ctrl, DevicePos)),
                       device)

PointerWheel ==
    \E type \in {"WHEELUPMOUSE", "WHEELDOWNMOUSE"} :
        Tracked(Modal(Event(type, "PRESS", device.ctrl, DevicePos)), device)

PointerKey ==
    \E type \in {"H", "L", "M"} :
        Tracked(Modal(Event(type, "PRESS", device.ctrl, DevicePos)), device)

PointerCtrl ==
    LET down == ~device.ctrl
    IN Tracked(Modal(Event("LEFT_CTRL", IF down THEN "PRESS" ELSE "RELEASE",
                           down, DevicePos)),
               [device EXCEPT !.ctrl = down])

----------------------------------------------------------------------------
(* Selection-engine calls on a document, outside the navigator *)

VerticalTransfer(from, to, extend) ==
    /\ phase = "Idle"
    /\ nOps < MaxOps
    /\ fcurves[from].select
    /\ LET r == process_keyframe_selection_for_vertical_move(fcurves, from, to, extend)
       IN /\ fcurves' = r.fc
          /\ raised' = r.raised
          /\ last' = [op |-> "vertical", from |-> from, to |-> to,
                      extend |-> extend, matches |-> r.matches]
    /\ nOps' = nOps + 1
    /\ UNCHANGED <<navVars, toggles>>

NavTransfer(from, to) ==
    /\ phase = "Idle"
    /\ nOps < MaxOps
    /\ LET r == _transfer_keyframe_selection(fcurves, from, to)
       IN /\ fcurves' = r.fc
          /\ raised' = FALSE
          /\ last' = [op |-> "navigator", from |-> from, to |-> to,
                      extend |-> FALSE, matches |-> r.matches]
    /\ nOps' = nOps + 1
    /\ UNCHANGED <<navVars, toggles>>

VerticalCall ==
    \E from \in 1..Len(fcurves), to \in 1..Len(fcurves), extend \in BOOLEAN :
        VerticalTransfer(from, to, extend)

NavigatorCall ==
    \E from \in 1..Len(fcurves), to \in 1..Len(fcurves) : NavTransfer(from, to)

HorizontalMove(direction, extend) ==
    /\ phase = "Idle"
    /\ nOps < MaxOps
    /\ fcurves' = move_keyframe_selection_horizontally(fcurves, direction, extend)
    /\ raised' = FALSE
    /\ last' = [op |-> "horizontal", from |-> 0, to |-> 0, extend |-> extend,
                matches |-> <<>>]
    /\ nOps' = nOps + 1
    /\ UNCHANGED <<navVars, toggles>>

HorizontalCall ==
    \E direction \in {"forward", "backward"}, extend \in BOOLEAN :
        HorizontalMove(direction, extend)

ChannelMove(direction, extend) ==
    /\ phase = "Idle"
    /\ nOps < MaxOps
    /\ get_visible_fcurves(fcurves) # {}
    /\ LET r == move_channel_selection_vertically(fcurves, direction, extend)
       IN /\ fcurves' = r.fc
          /\ raised' = r.raised
    /\ last' = [op |-> "channels", from |-> 0, to |-> 0, extend |-> extend,
                matches |-> <<>>]
    /\ nOps' = nOps + 1
    /\ UNCHANGED <<navVars, toggles>>

ChannelMoveCall ==
    \E direction \in {"downward", "upward"}, extend \in BOOLEAN :
        ChannelMove(direction, extend)

HandleToggle(handle_direction, extend) ==
    /\ phase = "Idle"
    /\ Len(toggles) < MaxToggles
    /\ get_visible_fcurves(fcurves) # {}
    /\ fcurves' = toggle_handle_selection(fcurves, handle_direction, extend)
    /\ raised' = FALSE
    /\ last' = [op |-> "toggle", from |-> 0, to |-> 0, extend |-> extend,
                matches |-> <<>>]
    /\ toggles' = Append(toggles, [handle_direction |-> handle_direction,
                                   extend |-> extend, before |-> fcurves,
                                   ops |-> nOps])
    /\ UNCHANGED <<navVars, nOps>>

ToggleCall ==
    \E handle_direction \in {"Left", "Right"}, extend \in BOOLEAN :
        HandleToggle(handle_direction, extend)

----------------------------------------------------------------------------
(* Documents *)

(* Navigator documents: channel c has Min(c, MaxNavPoints) Bezier points at *)
(* times 1, 2, ..; on the selected channels either nothing, every control  *)
(* point or every left handle is selected; any set of channels is selected *)
(* and at most one is hidden; no channel is locked or muted.               *)
Patterns == {"none", "cp", "lh"}

PatternPoint(t, pat, bez) ==
    [t |-> t, cp |-> (pat = "cp"), lh |-> (pat = "lh"), rh |-> FALSE, bez |-> bez]

NavCurve(c, pat) ==
    [i \in 1..Min2(c, MaxNavPoints) |-> PatternPoint(i, pat, TRUE)]

NavDocsOf(n) ==
    {[c \in 1..n |->
        [select |-> (c \in S), hide |-> (c \in H), lock |-> FALSE,
         mute |-> FALSE, kfs |-> NavCurve(c, IF c \in S THEN pat ELSE "none")]] :
        S \in SUBSET (1..n),
        H \in {X \in SUBSET (1..n) : Cardinality(X) <= 1},
        pat \in Patterns}

NavDocs == UNION {NavDocsOf(n) : n \in 0..MaxChannels}

(* Scroll documents: n channels without keyframes; none, one, or one and   *)
(* the last channel selected                                               *)
ScrollDocsOf(n) ==
    {[c \in 1..n |->
        [select |-> (c = sel \/ c = also), hide |-> FALSE, lock |-> FALSE,
         mute |-> FALSE, kfs |-> <<>>]] : sel \in 0..n, also \in {0, n}}

ScrollDocs == UNION {ScrollDocsOf(n) : n \in 1..MaxScrollChannels}

(* Transfer documents: a source channel A and a target channel B, each     *)
(* Bezier or not as a whole, with strictly increasing times in 1..MaxTime; *)
(* a non-Bezier point carries no handle selection.                         *)
SortedTimes(n) ==
    {ts \in [1..n -> 1..MaxTime] : \A i \in 1..(n - 1) : ts[i] < ts[i + 1]}

Flags(cp, lh, rh) == [cp |-> cp, lh |-> lh, rh |-> rh]

SrcFlags ==
    {Flags(FALSE, FALSE, FALSE), Flags(TRUE, FALSE, FALSE),
     Flags(FALSE, TRUE, FALSE), Flags(FALSE, FALSE, TRUE),
     Flags(TRUE, TRUE, TRUE)}

TgtFlags ==
    {Flags(FALSE, FALSE, FALSE), Flags(TRUE, FALSE, FALSE),
     Flags(FALSE, TRUE, TRUE)}

PlainFlags == {Flags(FALSE, FALSE, FALSE), Flags(TRUE, FALSE, FALSE)}

CurvesOf(maxPoints, bezFlags) ==
    UNION {UNION {{[i \in 1..n |->
                      [t |-> ts[i], cp |-> fl[i].cp, lh |-> fl[i].lh,
                       rh |-> fl[i].rh, bez |-> bez]] :
                      fl \in [1..n -> IF bez THEN bezFlags ELSE PlainFlags]} :
                  ts \in SortedTimes(n), bez \in BOOLEAN} :
           n \in 0..maxPoints}

XferDocs ==
    {<< [select |-> TRUE, hide |-> FALSE, lock |-> FALSE, mute |-> FALSE,
         kfs |-> a],
        [select |-> FALSE, hide |-> FALSE, lock |-> FALSE, mute |-> FALSE,
         kfs |-> b] >> :
        a \in CurvesOf(MaxSrcPoints, SrcFlags),
        b \in CurvesOf(MaxTgtPoints, TgtFlags)}

(* Pointer documents: navigator documents of two channels and of one more  *)
(* channel than the smallest window shows, with no hidden channel and at   *)
(* most one selected channel.                                              *)
PointerDocs ==
    {d \in NavDocsOf(MaxChannels) \cup NavDocsOf(MinDisplay + 1) :
        /\ \A c \in 1..Len(d) : ~d[c].hide
        /\ Cardinality({c \in 1..Len(d) : d[c].select}) <= 1}

(* Host documents: the navigator documents of the largest size with no    *)
(* hidden channel and no selected handle.                                  *)
HostDocs ==
    {d \in NavDocsOf(MaxChannels) :
        \A c \in 1..Len(d) :
            /\ ~d[c].hide
            /\ \A i \in 1..Len(d[c].kfs) : ~d[c].kfs[i].lh}

(* Selection documents: a selected, visible channel A of up to             *)
(* MaxSrcPoints points at times 1, 2, .. and a channel B of one point at   *)
(* time 1 that is unselected, selected, or selected and hidden.  The first *)
(* point of A, when Bezier, has one of four selection triples; every other *)
(* point has nothing or its control selected; a non-Bezier point carries   *)
(* no handle selection.                                                    *)
SelFlags ==
    {Flags(FALSE, FALSE, FALSE), Flags(TRUE, FALSE, FALSE),
     Flags(TRUE, FALSE, TRUE), Flags(FALSE, TRUE, FALSE)}

SelPoint(t, fl, bez) ==
    [t |-> t, cp |-> fl.cp, lh |-> fl.lh, rh |-> fl.rh, bez |-> bez]

SelCurvesA ==
    UNION {{[i \in 1..n |-> SelPoint(i, IF i = 1 THEN f1 ELSE rest[i], bez)] :
               f1 \in (IF bez THEN SelFlags ELSE PlainFlags),
               rest \in [1..n -> PlainFlags]} :
           n \in 1..MaxSrcPoints, bez \in BOOLEAN}

SelCurvesB == {<<SelPoint(1, fl, bez)>> : fl \in PlainFlags, bez \in BOOLEAN}

SelDocs ==
    {<< [select |-> TRUE, hide |-> FALSE, lock |-> FALSE, mute |-> FALSE,
         kfs |-> a],
        [select |-> sh[1], hide |-> sh[2], lock |-> FALSE, mute |-> FALSE,
         kfs |-> b] >> :
        a \in SelCurvesA, b \in SelCurvesB,
        sh \in {<<FALSE, FALSE>>, <<TRUE, FALSE>>, <<TRUE, TRUE>>}}

(* Move documents: up to MaxMoveChannels channels, any of them selected, at *)
(* most one hidden; a channel has no point, one Bezier point at time 1     *)
(* (unselected, control selected, or left handle selected), or a control   *)
(* selected point at time 1 followed by an unselected point at time 2.     *)
MoveCurves ==
    {<<>>,
     <<PatternPoint(1, "none", TRUE)>>,
     <<PatternPoint(1, "cp", TRUE)>>,
     <<PatternPoint(1, "lh", TRUE)>>,
     <<PatternPoint(1, "cp", TRUE), PatternPoint(2, "none", TRUE)>>}

MoveDoc(n, S, h, k) ==
    [c \in 1..n |->
        [select |-> (c \in S), hide |-> (c = h), lock |-> FALSE, mute |-> FALSE,
         kfs |-> k[c]]]

----------------------------------------------------------------------------
(* Specifications *)

InitCommon ==
    /\ phase = "Idle"
    /\ scroll_offset = 0
    /\ current_idx = 0
    /\ dragging = FALSE
    /\ drag_mode = "none"
    /\ drag_value = FALSE
    /\ pressed = FALSE
    /\ geom = NoGeom
    /\ original = NoOriginal
    /\ handlers = 0
    /\ focus = "none"
    /\ raised = FALSE
    /\ last = NoOp
    /\ lastEvent = NoEvent
    /\ atInvoke = <<>>
    /\ touched = FALSE
    /\ nEvents = 0
    /\ nOps = 0
    /\ report = "none"
    /\ modal_handlers = 0
    /\ removed = {}
    /\ staleUse = FALSE
    /\ drawn = NoFrame
    /\ toggles = <<>>
    /\ device = [x |-> 0, y |-> 0, ctrl |-> FALSE]

(* The navigator on small documents, at most MaxEvents events per run *)
Init ==
    /\ fcurves \in NavDocs
    /\ prefs = [auto_focus |-> TRUE, max_display |-> MinDisplay]
    /\ InitCommon

Next ==
    \/ InvokeEvent
    \/ CancelEvent
    \/ ConfirmEvent
    \/ WheelEvent
    \/ KeyEvent
    \/ PressEvent
    \/ ReleaseEvent
    \/ MoveEvent

Spec == Init /\ [][Next]_vars

(* The navigator's scroll window on long channel lists *)
InitScroll ==
    /\ fcurves \in ScrollDocs
    /\ prefs \in [auto_focus : {TRUE}, max_display : MinDisplay..MaxDisplay]
    /\ InitCommon

NextScroll ==
    \/ InvokeEvent
    \/ ScrollWheel
    \/ ScrollMove

SpecScroll == InitScroll /\ [][NextScroll]_vars

(* The transfer functions applied to drawn source and target channels *)
InitXfer ==
    /\ fcurves \in XferDocs
    /\ prefs = [auto_focus |-> TRUE, max_display |-> MinDisplay]
    /\ InitCommon

NextXfer ==
    \/ VerticalCall
    \/ NavigatorCall

SpecXfer == InitXfer /\ [][NextXfer]_vars

(* The navigator with the host's redraws and external removals of channels *)
InitHost ==
    /\ fcurves \in HostDocs
    /\ prefs = [auto_focus |-> TRUE, max_display |-> MinDisplay]
    /\ InitCommon

NextHost ==
    \/ InvokeEvent
    \/ Redraw
    \/ RemoveChannel
    \/ CancelEvent
    \/ KeyEvent
    \/ MoveEvent

SpecHost == InitHost /\ [][NextHost]_vars

(* Moves and handle toggles on a document of two channels *)
InitSel ==
    /\ fcurves \in SelDocs
    /\ prefs = [auto_focus |-> TRUE, max_display |-> MinDisplay]
    /\ InitCommon

NextSel ==
    \/ VerticalCall
    \/ NavigatorCall
    \/ HorizontalCall
    \/ ToggleCall

SpecSel == InitSel /\ [][NextSel]_vars

(* Moves of the channel selection on a document of several channels *)
InitMove ==
    /\ \E n \in 1..MaxMoveChannels :
          \E S \in SUBSET (1..n), h \in 0..n, k \in [1..n -> MoveCurves] :
              fcurves = MoveDoc(n, S, h, k)
    /\ prefs = [auto_focus |-> TRUE, max_display |-> MinDisplay]
    /\ InitCommon

NextMove == ChannelMoveCall

SpecMove == InitMove /\ [][NextMove]_vars

(* The navigator under the pointer feed *)
InitPointer ==
    /\ fcurves \in PointerDocs
    /\ prefs = [auto_focus |-> TRUE, max_display |-> MinDisplay]
    /\ InitCommon

NextPointer ==
    \/ PointerInvoke
    \/ PointerMove
    \/ PointerPress
    \/ PointerRelease
    \/ PointerWheel
    \/ PointerKey
    \/ PointerCtrl

SpecPointer == InitPointer /\ [][NextPointer]_vars

----------------------------------------------------------------------------
(* Properties *)

CancelTypes == {"RIGHTMOUSE", "ESC"}

WasCancel == lastEvent.type \in CancelTypes

WasKeyRelease == lastEvent.type = InvokeKey /\ lastEvent.value = "RELEASE"

(* C1: after a cancel input (right mouse button or Esc) handled while the  *)
(* navigator is open, whatever events came before, the interaction has     *)
(* ended as Cancelled and every channel's selected flag, hidden flag and   *)
(* every point's (control, left handle, right handle) triple equal their   *)
(* values at invoke.                                                       *)
C1_CancelRoundTrip ==
    WasCancel => phase = "Cancelled" /\ SameSelection(fcurves, atInvoke)

(* A cancel after two events, at least one of which changed selection or   *)
(* visibility.                                                             *)
C1_Witness ==
    WasCancel /\ phase = "Cancelled" /\ touched /\ nEvents = 3

(* C2: after a cancel, every channel's locked and muted flag equals its    *)
(* value at invoke.                                                        *)
C2_LockMuteRolledBack ==
    WasCancel =>
        \A c \in 1..Len(fcurves) :
            /\ fcurves[c].lock = atInvoke[c].lock
            /\ fcurves[c].mute = atInvoke[c].mute

(* C3 as stated: the release of the invoking key commits when the confirm  *)
(* modifier is held, and otherwise restores the snapshot and ends as       *)
(* Cancelled.                                                              *)
C3_ReleaseNeedsModifier ==
    WasKeyRelease =>
        IF lastEvent.ctrl
        THEN phase = "Finished"
        ELSE phase = "Cancelled" /\ SameSelection(fcurves, atInvoke)

(* C3 amended: the release of the invoking key while open always commits,  *)
(* with or without a modifier: the interaction ends as Finished, the live  *)
(* channel and point state is kept, and the focus planner has run (with    *)
(* auto focus enabled it frames something iff some channel is selected and *)
(* not hidden).                                                            *)
C3_ReleaseCommits ==
    [][\A ctrl \in BOOLEAN, af \in BOOLEAN :
          (phase = "Open"
           /\ lastEvent' = [type |-> InvokeKey, value |-> "RELEASE", ctrl |-> ctrl]
           /\ prefs'.auto_focus = af)
          => /\ phase' = "Finished"
             /\ fcurves' = fcurves
             /\ (focus' # "none") =
                  (af /\ \E c \in 1..Len(fcurves) :
                             fcurves[c].select /\ ~fcurves[c].hide)]_vars

(* The key was released without a modifier after the selection changed,    *)
(* and the changed selection is the committed one.                         *)
C3_Witness ==
    /\ WasKeyRelease /\ ~lastEvent.ctrl
    /\ phase = "Finished" /\ touched /\ ~SameSelection(fcurves, atInvoke)

----------------------------------------------------------------------------
(* Selection transfer *)

WasTransfer == last.op \in {"vertical", "navigator"}

SelectedPoints(kfs) == {i \in 1..Len(kfs) : KfSelected(kfs[i])}

(* j is a point of kfs nearest in time to frame, the lowest such index *)
IsNearestLowest(kfs, frame, j) ==
    /\ j \in 1..Len(kfs)
    /\ \A i \in 1..Len(kfs) :
          /\ Abs(kfs[j].t - frame) <= Abs(kfs[i].t - frame)
          /\ (Abs(kfs[j].t - frame) = Abs(kfs[i].t - frame) => j <= i)

TimedPoints(ts) ==
    [i \in 1..Len(ts) |->
        [t |-> ts[i], cp |-> FALSE, lh |-> FALSE, rh |-> FALSE, bez |-> TRUE]]

(* C4: a transfer with extend = false from channel A, whose only selected  *)
(* point has just its control selected, to a different channel B leaves    *)
(* that point of A with nothing selected and B's nearest-time point with   *)
(* exactly the control selected, whatever B's point had selected before.   *)
C4_ReplaceSemantics ==
    [][\A i \in 1..MaxSrcPoints + MaxTgtPoints :
          (/\ last'.op \in {"vertical", "navigator"}
           /\ ~last'.extend
           /\ last'.from # last'.to
           /\ SelectedPoints(fcurves[last'.from].kfs) = {i}
           /\ Triple(fcurves[last'.from].kfs[i]) = <<TRUE, FALSE, FALSE>>
           /\ Len(fcurves[last'.to].kfs) > 0)
          => /\ Triple(fcurves'[last'.from].kfs[i]) = <<FALSE, FALSE, FALSE>>
             /\ \A j \in 1..Len(fcurves[last'.to].kfs) :
                   IsNearestLowest(fcurves[last'.to].kfs,
                                   fcurves[last'.from].kfs[i].t, j)
                   => Triple(fcurves'[last'.to].kfs[j]) = <<TRUE, FALSE, FALSE>>]_vars

(* C5: in a transfer to a non-empty channel, the target point matched to   *)
(* each selected source point is nearest in time to it, and of two         *)
(* equidistant target points the one with the lower index; target times    *)
(* 1, 5, 9, 20 and source time 7 give the second point (index 1 counting   *)
(* from 0).                                                                *)
C5_NearestTime ==
    [][(/\ last'.op \in {"vertical", "navigator"}
        /\ (last'.op = "vertical" \/ last'.from # last'.to)
        /\ SelectedPoints(fcurves[last'.from].kfs) # {}
        /\ Len(fcurves[last'.to].kfs) > 0)
       => LET src == fcurves[last'.from].kfs
              tgt == fcurves[last'.to].kfs
              selected == get_selected_keyframes(src)
          IN /\ Len(last'.matches) = Cardinality(SelectedPoints(src))
             /\ \A k \in 1..Len(last'.matches) :
                   IsNearestLowest(tgt, src[selected[k].keyframe].t,
                                   last'.matches[k])
             /\ NearestKeyframe(TimedPoints(<<1, 5, 9, 20>>), 7) = 2]_vars

(* A selected source point was matched to the lower of two target points   *)
(* that are equally far from it.                                           *)
C5_Witness ==
    /\ WasTransfer /\ last.extend /\ last.from # last.to
    /\ \E i \in SelectedPoints(fcurves[last.from].kfs) :
          LET tgt == fcurves[last.to].kfs
              frame == fcurves[last.from].kfs[i].t
          IN /\ Len(tgt) >= 2
             /\ tgt[1].t < frame /\ frame < tgt[2].t
             /\ frame - tgt[1].t = tgt[2].t - frame
             /\ \E k \in 1..Len(last.matches) : last.matches[k] = 1

(* C6: a transfer whose source and target are the same channel changes no  *)
(* point's selection triple and raises no error, with extend true or       *)
(* false and whatever is selected on the channel.                          *)
C6_SelfTransferNoOp ==
    [][(last'.op \in {"vertical", "navigator"} /\ last'.from = last'.to)
       => ~raised' /\ SamePoints(fcurves', fcurves)]_vars

(* C7: a transfer to a channel without points, from a channel with a       *)
(* selected point, raises no error and changes no point's selection on     *)
(* source or target.                                                       *)
C7_EmptyTargetSkipped ==
    [][(/\ last'.op \in {"vertical", "navigator"}
        /\ last'.from # last'.to
        /\ SelectedPoints(fcurves[last'.from].kfs) # {}
        /\ Len(fcurves[last'.to].kfs) = 0)
       => ~raised' /\ SamePoints(fcurves', fcurves)]_vars

----------------------------------------------------------------------------
(* Solo, scrolling and focus *)

AllVisible(fc) == \A c \in 1..Len(fc) : ~fc[c].hide

(* Channel x (0-based) is the only one that is not hidden *)
OnlyVisible(fc, x) == \A c \in 1..Len(fc) : (~fc[c].hide) = (c = x + 1)

CtrlPress == [type |-> "LEFTMOUSE", value |-> "PRESS", ctrl |-> TRUE]

(* C8: a Ctrl press in the text zone of the row showing channel X unhides  *)
(* every channel if X was the only visible one, and otherwise leaves X as  *)
(* the only visible channel; so on an all-visible list exactly X stays     *)
(* visible, and a second such press on X then makes all channels visible,  *)
(* whatever was hidden before the first.                                   *)
C8_SoloUnsolo ==
    [][\A d \in 0..(geom.display_count - 1) :
          LET X == scroll_offset + (geom.display_count - 1 - d)
              ev == Event("LEFTMOUSE", "PRESS", TRUE,
                          <<geom.left + 1, RowY(geom, d)>>)
          IN (phase = "Open" /\ ~pressed /\ Modal(ev))
             => /\ IF OnlyVisible(fcurves, X)
                   THEN AllVisible(fcurves')
                   ELSE OnlyVisible(fcurves', X)
                /\ (AllVisible(fcurves) => OnlyVisible(fcurves', X))]_vars

(* Ctrl press, release, Ctrl press on a channel that was hidden at invoke,  *)
(* next to a visible one: the first press left it as the only visible      *)
(* channel, the second made both visible.                                  *)
C8_Witness ==
    /\ phase = "Open" /\ lastEvent = CtrlPress /\ nEvents = 3
    /\ Len(fcurves) = 2
    /\ atInvoke[current_idx + 1].hide
    /\ \E c \in 1..Len(atInvoke) : ~atInvoke[c].hide
    /\ AllVisible(fcurves)

WheelDown(g) == Event("WHEELDOWNMOUSE", "PRESS", FALSE, Outside(g))

RECURSIVE WheelDownTimes(_, _, _)
WheelDownTimes(s, g, n) ==
    IF n = 0 THEN s
    ELSE LET t == ModalScroll(s, g, WheelDown(g))
         IN IF t.scroll_offset >= s.scroll_offset
            THEN WheelDownTimes(t, g, n - 1) ELSE t

(* m times ten wheel-down events *)
RECURSIVE WheelDownTens(_, _, _)
WheelDownTens(s, g, m) ==
    IF m = 0 THEN s
    ELSE LET t == WheelDownTimes(s, g, 10)
         IN IF t.scroll_offset >= s.scroll_offset
            THEN WheelDownTens(t, g, m - 1) ELSE t

(* C9: while the navigator is open, with L channels and a window of        *)
(* N = min(L, max_display) rows, the scroll offset stays in                *)
(* 0 .. max(0, L - N); an event changes it by at most 1, and not at all    *)
(* when L <= max_display; with 10 channels and max_display = 4, a hundred  *)
(* wheel-down events end at offset 6.                                      *)
C9_ScrollClamp ==
    [][phase' = "Open"
       => LET L == Len(fcurves')
              N == Min2(L, prefs'.max_display)
          IN /\ 0 <= scroll_offset'
             /\ scroll_offset' <= Max2(0, L - N)
             /\ phase = "Open"
                => /\ Abs(scroll_offset' - scroll_offset) <= 1
                   /\ (L <= prefs.max_display => scroll_offset' = scroll_offset)
             /\ (phase = "Open" /\ L = 10 /\ prefs.max_display = 4)
                => WheelDownTens(NavState, geom, 10).scroll_offset = 6]_vars

(* Ten channels in a window of four, scrolled down to the last offset *)
C9_Witness ==
    /\ phase = "Open" /\ lastEvent.type = "WHEELDOWNMOUSE"
    /\ Len(fcurves) = 10 /\ prefs.max_display = 4 /\ scroll_offset = 6

(* The times of the control-selected points of selected, visible channels *)
AllFrames(fc) ==
    UNION {{fc[c].kfs[i].t : i \in 1..Len(fc[c].kfs)} : c \in 1..Len(fc)}

CountedFrames(fc) ==
    {t \in AllFrames(fc) :
        \E c \in 1..Len(fc) :
            /\ fc[c].select /\ ~fc[c].hide
            /\ \E i \in 1..Len(fc[c].kfs) : fc[c].kfs[i].cp /\ fc[c].kfs[i].t = t}

----------------------------------------------------------------------------
(* Handle toggles *)

HandleOf(kf, handle_direction) == IF handle_direction = "Left" THEN kf.lh ELSE kf.rh

OppositeOf(kf, handle_direction) == IF handle_direction = "Left" THEN kf.rh ELSE kf.lh

(* The channels a toggle works on: selected and not hidden *)
Batch(fc) == {c \in 1..Len(fc) : fc[c].select /\ ~fc[c].hide}

(* Every selected point of the batch has its control selected and the      *)
(* requested handle unselected                                             *)
ControlOnlyBatch(fc, handle_direction) ==
    \A c \in Batch(fc) : \A i \in 1..Len(fc[c].kfs) :
        KfSelected(fc[c].kfs[i]) =>
            fc[c].kfs[i].cp /\ ~HandleOf(fc[c].kfs[i], handle_direction)

(* The last two engine calls were toggles of the same side with the same   *)
(* extend value, with no other call between them                           *)
ToggledTwice ==
    /\ Len(toggles) >= 2
    /\ last.op = "toggle"
    /\ toggles[Len(toggles)].ops = nOps
    /\ toggles[Len(toggles) - 1].ops = nOps
    /\ toggles[Len(toggles)].handle_direction
         = toggles[Len(toggles) - 1].handle_direction
    /\ toggles[Len(toggles)].extend = toggles[Len(toggles) - 1].extend

----------------------------------------------------------------------------
(* Invoke and exit *)

(* C12: an invoke that finds no eligible channel ends at once as Cancelled *)
(* with a warning report; no channel or point changes, no snapshot is      *)
(* taken, and neither a draw handler nor a modal handler is registered.    *)
C12_NoChannelsAborts ==
    [][(phase = "Idle" /\ lastEvent'.type = "INVOKE" /\ Len(fcurves) = 0)
       => /\ phase' = "Cancelled"
          /\ report' = "WARNING"
          /\ fcurves' = fcurves
          /\ original' = NoOriginal
          /\ atInvoke' = <<>>
          /\ handlers' = 0
          /\ modal_handlers' = 0]_vars

(* The navigator was invoked on a document without channels *)
C12_Witness ==
    /\ lastEvent.type = "INVOKE" /\ Len(fcurves) = 0
    /\ phase = "Cancelled" /\ report = "WARNING"
    /\ handlers = 0 /\ modal_handlers = 0

(* C13: while the navigator is open, an event that is neither a cancel     *)
(* input (right mouse button, Esc) nor a release of the invoking key       *)
(* leaves it open with its modal handler registered (the handler returned  *)
(* the still-active status); a cancel input ends it as Cancelled, the key  *)
(* release as Finished, and nothing else moves it out of Open; once ended  *)
(* it stays ended.                                                         *)
C13_ExplicitExitOnly ==
    [][/\ phase = "Open"
          => IF lastEvent'.type \in CancelTypes
             THEN phase' = "Cancelled"
             ELSE IF lastEvent'.type = InvokeKey /\ lastEvent'.value = "RELEASE"
             THEN phase' = "Finished"
             ELSE phase' = "Open" /\ modal_handlers' = 1
       /\ phase \in {"Finished", "Cancelled"} => phase' = phase]_vars

(* Three events that are neither cancel nor confirm, the last one a button *)
(* release, and the navigator is still open.                               *)
C13_Witness ==
    /\ phase = "Open" /\ modal_handlers = 1 /\ nEvents >= 3
    /\ lastEvent.type = "LEFTMOUSE" /\ lastEvent.value = "RELEASE"

----------------------------------------------------------------------------
(* Transfer policies *)

FlagNames == {"cp", "lh", "rh"}

(* C14: a transfer with extend = true turns no control, left-handle or     *)
(* right-handle flag of any source or target point from selected to        *)
(* unselected.                                                             *)
C14_ExtendMonotone ==
    [][(last'.op \in {"vertical", "navigator"} /\ last'.extend)
       => \A c \in 1..Len(fcurves) : \A i \in 1..Len(fcurves[c].kfs) :
             \A f \in FlagNames :
                fcurves[c].kfs[i][f] => fcurves'[c].kfs[i][f]]_vars

(* C16: no non-Bezier point has its left or right handle selected, in the  *)
(* initial document and after any sequence of navigator transfers,         *)
(* vertical moves, horizontal moves and handle toggles.                    *)
C16_NonBezierNoHandles ==
    \A c \in 1..Len(fcurves) : \A i \in 1..Len(fcurves[c].kfs) :
        ~fcurves[c].kfs[i].bez => ~fcurves[c].kfs[i].lh /\ ~fcurves[c].kfs[i].rh

(* C18: in a transfer between two channels, a handle flag of a target      *)
(* point changes only if that point is Bezier and is matched to a Bezier   *)
(* source point; the handle flags of every other target point are left as  *)
(* they were.                                                              *)
C18_HandlesNeedBezier ==
    [][(last'.op \in {"vertical", "navigator"} /\ last'.from # last'.to)
       => LET src == fcurves[last'.from].kfs
              tgt == fcurves[last'.to].kfs
              selected == get_selected_keyframes(src)
          IN \A j \in 1..Len(tgt) : \A f \in {"lh", "rh"} :
                fcurves'[last'.to].kfs[j][f] # tgt[j][f]
                => /\ tgt[j].bez
                   /\ \E k \in 1..Len(last'.matches) :
                         /\ last'.matches[k] = j
                         /\ src[selected[k].keyframe].bez]_vars

(* C19: after a transfer to a different channel that has points, for every *)
(* source point whose control was selected before the call, the target     *)
(* point nearest in time to it has its control selected.                   *)
C19_ControlPropagated ==
    [][(/\ last'.op \in {"vertical", "navigator"}
        /\ last'.from # last'.to
        /\ Len(fcurves[last'.to].kfs) > 0)
       => \A i \in 1..Len(fcurves[last'.from].kfs) :
             fcurves[last'.from].kfs[i].cp
             => fcurves'[last'.to].kfs[
                    NearestKeyframe(fcurves[last'.to].kfs,
                                    fcurves[last'.from].kfs[i].t)].cp]_vars

(* C20: after a transfer between two different channels from a source with *)
(* a selected point, the source channel's selected flag equals extend and  *)
(* the target channel's selected flag is true.                             *)
C20_ChannelFlags ==
    [][(/\ last'.op \in {"vertical", "navigator"}
        /\ last'.from # last'.to
        /\ SelectedPoints(fcurves[last'.from].kfs) # {})
       => /\ fcurves'[last'.from].select = last'.extend
          /\ fcurves'[last'.to].select]_vars

(* An extending transfer left both channels selected, and a replacing one  *)
(* would have left only the target selected.                               *)
C20_Witness ==
    /\ WasTransfer /\ last.extend /\ last.from # last.to
    /\ SelectedPoints(fcurves[last.from].kfs) # {}
    /\ fcurves[last.from].select /\ fcurves[last.to].select
    /\ Len(last.matches) > 0

----------------------------------------------------------------------------
(* The host: removed channels and redraws *)

(* C15: once a channel held by the open navigator has been removed from    *)
(* the document, both row-mapping functions answer "no channel" for the    *)
(* row that showed it, nothing raises or ends the host, and no handler     *)
(* reads or writes the removed channel.                                    *)
C15_StaleSlotIsNoChannel ==
    /\ ~staleUse
    /\ phase # "Crashed"
    /\ phase = "Open"
       => \A d \in Rows(geom) :
             (scroll_offset + (geom.display_count - 1 - d)) \in removed
             => /\ _get_fcurve_at_display_idx(NavState, geom, d) = -1
                /\ _display_idx_to_fcurve_idx(NavState, geom, d) = -1

(* Pointer moves over every zone of every row, and the dedicated keys *)
FeedEvents(g) ==
    {Event("MOUSEMOVE", "NOTHING", FALSE, pos) : pos \in Positions(g)}
    \cup {Event(type, "PRESS", FALSE, Outside(g)) : type \in {"H", "L", "M"}}

(* A step of the draw handler: no event is handled, no channel is removed *)
RedrawStep ==
    /\ phase = "Open"
    /\ nEvents' = nEvents
    /\ lastEvent' = lastEvent
    /\ removed' = removed

(* C17: a redraw changes no field of the navigator (scroll offset, current *)
(* index, dragging, drag mode and value, pressed, geometry) and no channel *)
(* or point flag: the handlers see after it the state they saw before it,  *)
(* and a pointer move or key press handled after the redraw gives the      *)
(* state it gives without it; so redraws interleaved anywhere in an event  *)
(* sequence do not change the resulting state.                             *)
C17_RendererPure ==
    [][RedrawStep
       => /\ UNCHANGED <<fcurves, scroll_offset, current_idx, dragging,
                         drag_mode, drag_value, pressed, geom, original>>
          /\ _draw_callback(NavState, geom).state = NavState
          /\ \A ev \in FeedEvents(geom) :
                ModalRunning(_draw_callback(NavState, geom).state, geom, ev)
                  = ModalRunning(NavState, geom, ev)]_vars

(* A redraw drew the border on a row, and a later event moved the current  *)
(* channel away from that row's channel.                                   *)
C17_Witness ==
    /\ phase = "Open" /\ nEvents >= 1
    /\ \E d \in 1..Len(drawn.rows) :
          drawn.rows[d].border /\ drawn.rows[d].channel # current_idx

(* The last engine call was a toggle: fcurves is its result *)
JustToggled == Len(toggles) >= 1 /\ last.op = "toggle"

(* Every point of the batch with a selected sub-element has the handle *)
HandleEverywhere(fc, handle_direction) ==
    \A c \in Batch(fc) : \A i \in 1..Len(fc[c].kfs) :
        KfSelected(fc[c].kfs[i]) => HandleOf(fc[c].kfs[i], handle_direction)

(* The channels of the batch without any selected point *)
EmptyOfBatch(fc) ==
    {c \in Batch(fc) : \A i \in 1..Len(fc[c].kfs) : ~KfSelected(fc[c].kfs[i])}

(* C21: the decision of a toggle is true exactly when every point of every *)
(* batch channel that has a selected sub-element has the requested handle  *)
(* selected; a batch channel without a selected point counts as true, so   *)
(* with such a channel in the batch the other channels still take the      *)
(* deselect branch: their selected points end with the handle cleared.     *)
C21_QueryOverBatch ==
    /\ \A k \in 1..Len(toggles) :
          LET before == toggles[k].before
              side == toggles[k].handle_direction
          IN AllSelected(before, ChannelList(Batch(before), 1, Len(before)), side)
                <=> HandleEverywhere(before, side)
    /\ JustToggled =>
          LET before == toggles[Len(toggles)].before
              side == toggles[Len(toggles)].handle_direction
          IN (EmptyOfBatch(before) # {} /\ HandleEverywhere(before, side)) =>
                \A c \in Batch(before) : \A i \in 1..Len(before[c].kfs) :
                    KfSelected(before[c].kfs[i]) =>
                        ~HandleOf(fcurves[c].kfs[i], side)

(* A batch of two channels, one without a selected point, the other with   *)
(* the handle on its selected point: the toggle cleared that handle.       *)
C21_Witness ==
    /\ JustToggled
    /\ LET before == toggles[Len(toggles)].before
           side == toggles[Len(toggles)].handle_direction
       IN /\ EmptyOfBatch(before) # {}
          /\ \E c \in Batch(before) : \E i \in 1..Len(before[c].kfs) :
                /\ HandleOf(before[c].kfs[i], side)
                /\ ~HandleOf(fcurves[c].kfs[i], side)
                /\ fcurves[c].kfs[i].cp

(* C22: after a toggle, every point of a batch channel that had a selected *)
(* sub-element has, when the decision was true, the requested handle       *)
(* unselected, the control selected and the opposite handle as before;     *)
(* when the decision was false it has the requested handle selected, and   *)
(* the opposite handle and the control are unselected without extend and   *)
(* as before with extend.                                                  *)
C22_ToggleApply ==
    JustToggled =>
        LET t == toggles[Len(toggles)]
            side == t.handle_direction
        IN \A c \in Batch(t.before) : \A i \in 1..Len(t.before[c].kfs) :
              LET o == t.before[c].kfs[i]
                  k == fcurves[c].kfs[i]
              IN KfSelected(o) =>
                    IF HandleEverywhere(t.before, side)
                    THEN /\ ~HandleOf(k, side)
                         /\ k.cp
                         /\ OppositeOf(k, side) = OppositeOf(o, side)
                    ELSE /\ HandleOf(k, side)
                         /\ ~t.extend => (~OppositeOf(k, side) /\ ~k.cp)
                         /\ t.extend => /\ OppositeOf(k, side) = OppositeOf(o, side)
                                        /\ k.cp = o.cp

(* A toggle without extend on a channel with two selected points, the      *)
(* second of them with its control selected and without the handle: both   *)
(* points end with only the requested handle.                              *)
C22_Witness ==
    /\ JustToggled
    /\ LET t == toggles[Len(toggles)]
           side == t.handle_direction
       IN /\ ~t.extend
          /\ \E c \in Batch(t.before) :
                /\ Len(t.before[c].kfs) >= 2
                /\ KfSelected(t.before[c].kfs[1])
                /\ t.before[c].kfs[2].cp
                /\ ~HandleOf(t.before[c].kfs[2], side)
                /\ \A i \in 1..2 :
                      /\ HandleOf(fcurves[c].kfs[i], side)
                      /\ ~fcurves[c].kfs[i].cp
                      /\ ~OppositeOf(fcurves[c].kfs[i], side)

(* The orderings of a set of channels *)
Orderings(S) ==
    {p \in [1..Cardinality(S) -> S] :
        \A i, j \in 1..Cardinality(S) : i # j => p[i] # p[j]}

(* C23: the result of a toggle is the one obtained by processing the       *)
(* channels of the batch in any order: the decision is taken once over the *)
(* whole batch and applied to every channel.                               *)
C23_OrderIndependent ==
    JustToggled =>
        LET t == toggles[Len(toggles)]
        IN \A p \in Orderings(Batch(t.before)) :
              ToggleSelected(t.before, p, t.handle_direction, t.extend, 1)
                 = fcurves

(* A toggle over a batch of two channels that both had the handle on their *)
(* selected points: both were cleared.                                     *)
C23_Witness ==
    /\ JustToggled
    /\ LET t == toggles[Len(toggles)]
           side == t.handle_direction
       IN /\ Cardinality(Batch(t.before)) >= 2
          /\ \A c \in Batch(t.before) :
                \E i \in 1..Len(t.before[c].kfs) :
                    /\ HandleOf(t.before[c].kfs[i], side)
                    /\ ~HandleOf(fcurves[c].kfs[i], side)

----------------------------------------------------------------------------
(* Icons, drags, hover and keys *)

ChannelFlags == {"hide", "lock", "mute"}

(* The left edge of the icon zone of a flag *)
ZoneX(g, flag) ==
    IF flag = "hide" THEN g.hide_zone_x
    ELSE IF flag = "lock" THEN g.lock_zone_x ELSE g.mute_zone_x

(* The channel (0-based) shown in row d *)
RowChannel(d) == scroll_offset + (geom.display_count - 1 - d)

(* Flag f of channel c (1-based) is the same in fc1 and fc2 *)
SameFlag(fc1, fc2, c, f) == fc1[c][f] = fc2[c][f]

(* C24: a press of the button, with the button up, in the hide, lock or    *)
(* mute zone of a displayed row flips that flag of the row's channel, and  *)
(* afterwards the navigator is dragging with that flag as drag mode and    *)
(* the flag's new value as drag value; no other flag of any channel, no    *)
(* channel or point selection and not the current index change.            *)
C24_IconPress ==
    [][\A d \in Rows(geom), flag \in ChannelFlags, ctrl \in BOOLEAN :
          LET X == RowChannel(d)
              ev == Event("LEFTMOUSE", "PRESS", ctrl,
                          <<ZoneX(geom, flag), RowY(geom, d)>>)
          IN (phase = "Open" /\ ~pressed /\ X < Len(fcurves) /\ Modal(ev))
             => /\ fcurves'[X + 1][flag] = ~fcurves[X + 1][flag]
                /\ pressed' /\ dragging'
                /\ drag_mode' = flag
                /\ drag_value' = fcurves'[X + 1][flag]
                /\ current_idx' = current_idx
                /\ \A c \in 1..Len(fcurves) :
                      /\ fcurves'[c].select = fcurves[c].select
                      /\ fcurves'[c].kfs = fcurves[c].kfs
                      /\ \A f \in ChannelFlags :
                            (c # X + 1 \/ f # flag)
                               => SameFlag(fcurves', fcurves, c, f)]_vars

(* After a press on the lock icon of a row that does not show the current  *)
(* channel: dragging in lock mode, that channel locked, the others not.    *)
C24_Witness ==
    /\ phase = "Open" /\ nEvents = 1
    /\ lastEvent.type = "LEFTMOUSE" /\ lastEvent.value = "PRESS"
    /\ dragging /\ pressed /\ drag_mode = "lock" /\ drag_value
    /\ \E c \in 1..Len(fcurves) :
          /\ c # current_idx + 1
          /\ fcurves[c].lock /\ ~atInvoke[c].lock
          /\ \A o \in 1..Len(fcurves) : o # c => ~fcurves[o].lock

(* A step of the pointer feed in which modal() handled an event; the event *)
(* is then lastEvent' at the position device'.                             *)
Handled == phase = "Open" /\ nEvents' = nEvents + 1

(* An event handled between an icon press and the release that ends the    *)
(* drag: the navigator is dragging when it arrives and it is not a button  *)
(* event.                                                                  *)
DuringDrag ==
    Handled /\ pressed /\ dragging /\ lastEvent'.type # "LEFTMOUSE"

DragKeys == {"H", "L", "M"}

KeyFlag(type) == IF type = "H" THEN "hide" ELSE IF type = "L" THEN "lock" ELSE "mute"

(* The channel (0-based) under the pointer after the event's scroll, or -1 *)
(* when the pointer is over no row showing a channel                       *)
ChannelUnder ==
    LET d == _get_hovered_display_idx(geom, device'.x, device'.y)
        X == scroll_offset' + (geom.display_count - 1 - d)
    IN IF d # -1 /\ X < Len(fcurves) THEN X ELSE -1

(* C25 as stated: during a drag, every event with the pointer over a       *)
(* displayed row sets the drag-mode flag of the row's channel to the drag  *)
(* value, and every other channel flag keeps its value.                    *)
C25_DragStampOnly ==
    [][DuringDrag
       => \A c \in 1..Len(fcurves), f \in ChannelFlags :
             IF c = ChannelUnder + 1 /\ f = drag_mode
             THEN fcurves'[c][f] = drag_value
             ELSE SameFlag(fcurves', fcurves, c, f)]_vars

(* C25: during a drag, every event with the pointer over a displayed row   *)
(* sets the drag-mode flag of the row's channel to the drag value; every   *)
(* other channel flag keeps its value, except that a press of the hide,    *)
(* lock or mute key flips that flag on the current channel before the      *)
(* stamp is applied.                                                       *)
C25_DragStamp ==
    [][DuringDrag
       => \A c \in 1..Len(fcurves), f \in ChannelFlags :
             IF c = ChannelUnder + 1 /\ f = drag_mode
             THEN fcurves'[c][f] = drag_value
             ELSE IF lastEvent'.type \in DragKeys /\ c = current_idx + 1
                     /\ f = KeyFlag(lastEvent'.type)
             THEN fcurves'[c][f] = ~fcurves[c][f]
             ELSE SameFlag(fcurves', fcurves, c, f)]_vars

(* After an icon press on one row and a move over the other row: the flag  *)
(* of both channels differs from its value at invoke and equals the drag   *)
(* value.                                                                  *)
C25_Witness ==
    /\ phase = "Open" /\ dragging /\ pressed /\ nEvents = 2
    /\ lastEvent.type = "MOUSEMOVE"
    /\ Len(fcurves) >= 2
    /\ \A c \in 1..Len(fcurves) :
          /\ fcurves[c][drag_mode] = drag_value
          /\ atInvoke[c][drag_mode] # drag_value

(* C26: whenever the navigator is open, dragging implies that the button   *)
(* is recorded as pressed, and dragging holds exactly when a drag mode is  *)
(* set; a button release, wherever the pointer is, leaves pressed and      *)
(* dragging false and the drag mode cleared; a press in the text zone of a *)
(* row or outside the popup does not enter dragging.                       *)
C26_DragLifecycle ==
    [][/\ phase' = "Open" =>
             /\ dragging' => pressed'
             /\ dragging' <=> drag_mode' # "none"
       /\ (/\ phase = "Open" /\ nEvents' = nEvents + 1
           /\ lastEvent'.type = "LEFTMOUSE" /\ lastEvent'.value = "RELEASE")
          => ~pressed' /\ ~dragging' /\ drag_mode' = "none"
       /\ (phase = "Open" /\ ~pressed)
          => \A pos \in TextPos(geom) \cup {Outside(geom)}, ctrl \in BOOLEAN :
                Modal(Event("LEFTMOUSE", "PRESS", ctrl, pos)) => ~dragging']_vars

(* After an icon press and the release that followed it: the flag is still *)
(* changed, nothing is pressed or dragged and no drag mode is set.         *)
C26_Witness ==
    /\ phase = "Open" /\ nEvents = 2
    /\ lastEvent.type = "LEFTMOUSE" /\ lastEvent.value = "RELEASE"
    /\ ~pressed /\ ~dragging /\ drag_mode = "none"
    /\ \E c \in 1..Len(fcurves) : fcurves[c].mute /\ ~atInvoke[c].mute

(* After the event the pointer is in the text zone of a row showing a      *)
(* channel                                                                 *)
InTextZone == ChannelUnder # -1 /\ device'.x < geom.mute_zone_x

(* The step moved the selection of channel c to channel h (both 0-based)   *)
(* without extending: nothing changed when c had no selected point;        *)
(* otherwise c is unselected and has no selected point left, h is selected *)
(* and the points of h nearest in time to the selected points of c are     *)
(* selected, the other points of h and every other channel being as before *)
TransferDone(c, h) ==
    LET src == fcurves[c + 1].kfs
        tgt == fcurves[h + 1].kfs
    IN IF SelectedPoints(src) = {}
       THEN SamePoints(fcurves', fcurves)
       ELSE /\ \A i \in 1..Len(src) :
                  Triple(fcurves'[c + 1].kfs[i]) = <<FALSE, FALSE, FALSE>>
            /\ ~fcurves'[c + 1].select
            /\ fcurves'[h + 1].select
            /\ \A j \in 1..Len(tgt) :
                  IF \E i \in SelectedPoints(src) : IsNearestLowest(tgt, src[i].t, j)
                  THEN KfSelected(fcurves'[h + 1].kfs[j])
                  ELSE Triple(fcurves'[h + 1].kfs[j]) = Triple(tgt[j])
            /\ \A o \in 1..Len(fcurves) :
                  (o # c + 1 /\ o # h + 1) => fcurves'[o].kfs = fcurves[o].kfs

HoverChanged ==
    Handled /\ InTextZone /\ ~dragging' /\ current_idx' # current_idx

(* C28: after a hover that changes the current channel from c to h, h is   *)
(* selected and c is not, whether or not c had a selected point.           *)
C28_HoverSelects ==
    [][HoverChanged
       => /\ fcurves'[current_idx' + 1].select
          /\ ~fcurves'[current_idx + 1].select]_vars

(* The step handled a press of the hide, lock or mute key *)
KeyPressed ==
    Handled /\ lastEvent'.type \in DragKeys /\ lastEvent'.value = "PRESS"

(* C29: a press of the hide, lock or mute key while open flips that flag   *)
(* on the channel that is current when the event arrives, changes no other *)
(* flag of any channel and starts no drag.                                 *)
C29_KeyFlipsOnly ==
    [][KeyPressed
       => /\ \A c \in 1..Len(fcurves), f \in ChannelFlags :
                IF c = current_idx + 1 /\ f = KeyFlag(lastEvent'.type)
                THEN fcurves'[c][f] = ~fcurves[c][f]
                ELSE SameFlag(fcurves', fcurves, c, f)
          /\ dragging' = dragging /\ drag_mode' = drag_mode]_vars

(* Channel x (0-based) is the only selected one *)
OnlySelected(fc, x) == \A c \in 1..Len(fc) : fc[c].select = (c = x + 1)

(* C30: after a Ctrl press, with the button up, in the text zone of the     *)
(* row showing channel X (a solo or an unsolo of X), X is the only         *)
(* selected channel and the current index is X's index, whichever channel  *)
(* was current or selected before.                                         *)
C30_SoloSelectsTarget ==
    [][\A d \in Rows(geom) :
          LET X == RowChannel(d)
              ev == Event("LEFTMOUSE", "PRESS", TRUE,
                          <<geom.left + 1, RowY(geom, d)>>)
          IN (phase = "Open" /\ ~pressed /\ X < Len(fcurves) /\ Modal(ev))
             => /\ OnlySelected(fcurves', X)
                /\ current_idx' = X]_vars

(* The first event is a Ctrl press on the row of a channel that was        *)
(* neither selected nor current at invoke, while another was selected:     *)
(* it is now current, the only selected and the only visible channel.      *)
C30_Witness ==
    /\ phase = "Open" /\ nEvents = 1 /\ lastEvent = CtrlPress
    /\ current_idx # _find_active_index(atInvoke)
    /\ ~atInvoke[current_idx + 1].select
    /\ \E c \in 1..Len(atInvoke) : atInvoke[c].select
    /\ OnlySelected(fcurves, current_idx)
    /\ OnlyVisible(fcurves, current_idx)

----------------------------------------------------------------------------
(* Layout: window, rows and zones *)

(* invoke has just opened the navigator; device holds the invoking pointer *)
JustInvoked == phase = "Open" /\ lastEvent.type = "INVOKE"

(* The index (0-based) of the first selected channel, 0 when there is none *)
FirstSelected(fc) ==
    IF \A c \in 1..Len(fc) : ~fc[c].select THEN 0
    ELSE CHOOSE i \in 0..(Len(fc) - 1) :
            fc[i + 1].select /\ \A c \in 1..i : ~fc[c].select

Clamp(x, lo, hi) == IF x < lo THEN lo ELSE IF x > hi THEN hi ELSE x

(* The popup of N rows placed with row d under the pointer (mx, my) fits   *)
(* inside the region margins                                               *)
NotClamped(mx, my, N, d) ==
    /\ mx - BoxWidth \div 2 >= RegionMargin
    /\ mx - BoxWidth \div 2 + BoxWidth <= RegionW - RegionMargin
    /\ my - d * BoxHeight - BoxHeight \div 2 >= RegionMargin
    /\ my - d * BoxHeight - BoxHeight \div 2 + N * BoxHeight
          <= RegionH - RegionMargin

(* The events that can arrive before the pointer has moved, other than the *)
(* wheel                                                                   *)
UnmovedEvents(pos) ==
    {Event(tv[1], tv[2], ctrl, pos) :
        tv \in {<<"MOUSEMOVE", "NOTHING">>, <<"LEFTMOUSE", "PRESS">>,
                <<"LEFTMOUSE", "RELEASE">>, <<"H", "PRESS">>,
                <<"LEFT_CTRL", "PRESS">>},
        ctrl \in BOOLEAN}

WheelEvents(pos) ==
    {Event(type, "PRESS", FALSE, pos) : type \in {"WHEELUPMOUSE", "WHEELDOWNMOUSE"}}

(* The window and the pointer right after invoke: the current index is the *)
(* index i0 of the first selected channel (0 when none is selected), the   *)
(* scroll offset is i0 - N div 2 clamped to 0 .. L - N, i0 lies in the     *)
(* window, and when the popup is not clamped by the region the invoking    *)
(* pointer position is in the text zone of the row showing i0 and every    *)
(* event of the set evs at that position leaves the current index as it is *)
InvokeWindow(evs) ==
    LET L == Len(fcurves)
        N == Min2(L, prefs.max_display)
        i0 == FirstSelected(fcurves)
        d0 == N - 1 - (i0 - scroll_offset)
        row == _get_hovered_display_idx(geom, device.x, device.y)
    IN /\ current_idx = i0
       /\ scroll_offset = Clamp(i0 - N \div 2, 0, L - N)
       /\ scroll_offset <= i0 /\ i0 < scroll_offset + N
       /\ NotClamped(device.x, device.y, N, d0)
          => /\ row = d0
             /\ geom.left <= device.x /\ device.x < geom.mute_zone_x
             /\ \A ev \in evs :
                   ModalRunning(NavState, geom, ev).current_idx = i0

(* C31 as stated: right after a successful invoke the window is as above   *)
(* and any event at the unmoved pointer, a wheel event included, leaves    *)
(* the current index as it is.                                             *)
C31_AnyEventKeepsCurrent ==
    JustInvoked =>
        InvokeWindow(UnmovedEvents(DevicePos) \cup WheelEvents(DevicePos))

(* C31: right after a successful invoke on L channels with N = min(L,      *)
(* max_display) rows, the current index is the index i0 of the first       *)
(* selected channel (0 when none is selected), the scroll offset is        *)
(* i0 - N div 2 clamped to 0 .. L - N, and i0 lies in the window           *)
(* offset .. offset + N - 1; when the popup is not clamped by the region,  *)
(* the invoking pointer position is in the text zone of the row showing    *)
(* i0, and an event at that position other than a wheel event leaves the   *)
(* current index as it is.                                                 *)
C31_InvokeWindow ==
    JustInvoked => InvokeWindow(UnmovedEvents(DevicePos))

(* Invoke on ten channels with the seventh and the last selected and four  *)
(* rows: the seventh is current, the window starts two channels above it   *)
(* and the popup is where the pointer put it.                              *)
C31_Witness ==
    /\ JustInvoked
    /\ Len(fcurves) = 10 /\ prefs.max_display = 4
    /\ fcurves[7].select /\ fcurves[10].select
    /\ current_idx = 6 /\ scroll_offset = 4
    /\ NotClamped(device.x, device.y, 4, 1)

(* C32: while the navigator is open with L channels and N rows, every      *)
(* display index d in 0 .. N - 1 maps to the channel index                 *)
(* offset + (N - 1 - d), which lies in 0 .. L - 1; the rows map one-to-one *)
(* onto the window offset .. offset + N - 1, the top row (d = N - 1)       *)
(* showing channel offset and the bottom row (d = 0) channel               *)
(* offset + N - 1; the function that returns the channel and the one that  *)
(* returns the index give the same channel.                                *)
C32_RowMapping ==
    phase = "Open" =>
        LET L == Len(fcurves)
            N == Min2(L, prefs.max_display)
            idx(d) == _display_idx_to_fcurve_idx(NavState, geom, d)
        IN /\ geom.display_count = N
           /\ \A d \in 0..(N - 1) :
                 /\ idx(d) = scroll_offset + (N - 1 - d)
                 /\ 0 <= idx(d) /\ idx(d) < L
                 /\ _get_fcurve_at_display_idx(NavState, geom, d) = idx(d)
           /\ {idx(d) : d \in 0..(N - 1)} = scroll_offset..(scroll_offset + N - 1)
           /\ \A d1, d2 \in 0..(N - 1) : idx(d1) = idx(d2) => d1 = d2
           /\ idx(N - 1) = scroll_offset
           /\ idx(0) = scroll_offset + N - 1

(* Ten channels in four rows, scrolled by wheel events to offset 3: the    *)
(* bottom row shows the seventh channel.                                   *)
C32_Witness ==
    /\ phase = "Open" /\ lastEvent.type \in {"WHEELUPMOUSE", "WHEELDOWNMOUSE"}
    /\ Len(fcurves) = 10 /\ prefs.max_display = 4 /\ scroll_offset = 3
    /\ _display_idx_to_fcurve_idx(NavState, geom, 0) = 6

(* Pointer coordinates on and next to every edge of the popup, of its      *)
(* zones and of its rows                                                   *)
ProbeX(g) ==
    UNION {{x - 1, x, x + 1} :
             x \in {g.left, g.mute_zone_x, g.lock_zone_x, g.hide_zone_x, g.right}}

ProbeY(g) ==
    UNION {{y - 1, y, y + 1} :
             y \in {g.bottom + d * BoxHeight : d \in 0..g.display_count}}

(* The zone of x by the icon width w: the three icon zones are w wide and  *)
(* stacked from the right edge                                             *)
ZoneOf(g, x) ==
    LET w == IconMargin
    IN IF x >= g.right - w THEN "hide"
       ELSE IF g.right - 2 * w <= x /\ x < g.right - w THEN "lock"
       ELSE IF g.right - 3 * w <= x /\ x < g.right - 2 * w THEN "mute"
       ELSE "text"

(* What a press at (x, y) with nothing pressed takes the position for *)
PressZone(x, y) ==
    LET row == _get_hovered_display_idx(geom, x, y)
        s == _handle_click([NavState EXCEPT !.pressed = TRUE, !.dragging = FALSE,
                                            !.drag_mode = "none"],
                           geom, Event("LEFTMOUSE", "PRESS", FALSE, <<x, y>>), row)
    IN IF row = -1 THEN "none"
       ELSE IF s.drag_mode # "none" THEN s.drag_mode ELSE "text"

(* Hover at (x, y) takes the position for the text zone of a row: with     *)
(* another channel current and nothing dragged it makes the row's channel  *)
(* current                                                                 *)
HoverIsText(x, y) ==
    LET row == _get_hovered_display_idx(geom, x, y)
        ch == scroll_offset + (geom.display_count - 1 - row)
        other == IF ch = 0 THEN 1 ELSE 0
    IN /\ row # -1
       /\ ModalHover([NavState EXCEPT !.dragging = FALSE, !.current_idx = other],
                     geom, Event("MOUSEMOVE", "NOTHING", FALSE, <<x, y>>),
                     row).current_idx = ch

(* C33: the hit test answers no row for a position outside                 *)
(* [left, right] x [bottom, top]; inside, it answers the row               *)
(* (y - bottom) div row height when that is below the number of rows, and  *)
(* no row otherwise; over a row a press takes x for the hide zone when     *)
(* x >= right - w, the lock zone when right - 2w <= x < right - w, the     *)
(* mute zone when right - 3w <= x < right - 2w and the text zone           *)
(* otherwise, and hover takes x for the text zone exactly when a press     *)
(* does.                                                                   *)
C33_HitTest ==
    phase = "Open" =>
        \A x \in ProbeX(geom), y \in ProbeY(geom) :
            LET row == _get_hovered_display_idx(geom, x, y)
                inside == /\ geom.left <= x /\ x <= geom.right
                          /\ geom.bottom <= y /\ y <= geom.top
                r == (y - geom.bottom) \div BoxHeight
            IN /\ ~inside => row = -1
               /\ inside => row = (IF r < geom.display_count THEN r ELSE -1)
               /\ row # -1 =>
                     /\ PressZone(x, y) = ZoneOf(geom, x)
                     /\ Len(fcurves) >= 2 =>
                           (HoverIsText(x, y) <=> PressZone(x, y) = "text")

(* An open navigator of four rows: the last pixel column of the popup, one *)
(* pixel under its top edge, is the hide zone of the top row, the top edge *)
(* itself is no row, and the pixel left of the mute zone is text for both  *)
(* press and hover.                                                        *)
C33_Witness ==
    /\ phase = "Open" /\ geom.display_count = 4
    /\ _get_hovered_display_idx(geom, geom.right, geom.top - 1) = 3
    /\ PressZone(geom.right, geom.top - 1) = "hide"
    /\ _get_hovered_display_idx(geom, geom.right, geom.top) = -1
    /\ PressZone(geom.mute_zone_x - 1, geom.bottom) = "text"
    /\ HoverIsText(geom.mute_zone_x - 1, geom.bottom)
    /\ ~HoverIsText(geom.mute_zone_x, geom.bottom)

----------------------------------------------------------------------------
(* Focus and framing *)

(* Some selected, visible channel has two points at distinct times that    *)
(* are selected through a handle only                                      *)
HandleOnlyPair(fc) ==
    \E c \in 1..Len(fc) :
        /\ fc[c].select /\ ~fc[c].hide
        /\ \E i, j \in 1..Len(fc[c].kfs) :
              /\ fc[c].kfs[i].t # fc[c].kfs[j].t
              /\ \A k \in {i, j} : ~fc[c].kfs[k].cp /\ KfSelected(fc[c].kfs[k])

(* C34: a point counts as selected for the focus planner when any of its   *)
(* control, left handle or right handle is selected: after a commit with   *)
(* auto focus enabled, two points at distinct times on a selected visible  *)
(* channel that are selected through a handle only make the planner ask    *)
(* for the keyframe extents.                                               *)
C34_HandleCounts ==
    (phase = "Finished" /\ prefs.auto_focus /\ HandleOnlyPair(fcurves))
        => focus = "keyframes"

(* C35: the framing run by a commit leaves the selection as it was: the    *)
(* channels after the commit carry, point by point, the control, left      *)
(* handle and right handle flags they had before it, whether the framing   *)
(* operator selected the in-range points for the view or not.              *)
C35_FramingKeepsSelection ==
    [][(phase = "Open" /\ phase' = "Finished") => fcurves' = fcurves]_vars

(* A commit that framed a document in which every selected editable        *)
(* channel has exactly one selected point, so that the operator changed    *)
(* the flags for the view and wrote them back.                             *)
C35_Witness ==
    /\ phase = "Finished" /\ focus # "none"
    /\ selected_editable_fcurves(fcurves) # {}
    /\ per_channel_single(fcurves, selected_editable_fcurves(fcurves))
    /\ \E scene \in SceneRanges :
          LET r == view_selected_curves_range(fcurves, focus = "frame_range", scene)
          IN r.viewed # fcurves /\ r.fc = fcurves

(* C36: a draw handler is registered only by an invoke that opens the      *)
(* navigator, and removed only, and exactly once, by the event that ends   *)
(* it as Finished or Cancelled; in every state exactly one handler is      *)
(* registered iff the navigator is open, and none is registered otherwise  *)
(* (before the invoke, after an aborted invoke, after a terminal state).   *)
C36_HandlerLifecycle ==
    /\ [](handlers = (IF phase = "Open" THEN 1 ELSE 0))
    /\ [][/\ handlers' > handlers =>
                /\ handlers' = handlers + 1
                /\ phase = "Idle" /\ phase' = "Open" /\ lastEvent'.type = "INVOKE"
          /\ handlers' < handlers =>
                /\ handlers' = handlers - 1
                /\ phase = "Open" /\ phase' \in {"Finished", "Cancelled"}
          /\ (phase = "Open" /\ phase' # "Open") => handlers' = handlers - 1
          /\ (phase = "Idle" /\ phase' = "Cancelled") => handlers' = 0]_vars

(* The navigator was open, received events, and has ended by a cancel      *)
(* event: its handler is gone.                                             *)
C36_Witness ==
    /\ phase = "Cancelled" /\ lastEvent.type \in {"RIGHTMOUSE", "ESC"}
    /\ nEvents >= 2 /\ handlers = 0 /\ atInvoke # <<>>

(* C37: a handle toggle keeps the set of selected points: a point has a    *)
(* selected sub-element after the toggle iff it had one before, whatever   *)
(* the side, the extend value and the decision, and a channel outside the  *)
(* batch (unselected or hidden) is left as it was.                         *)
C37_TogglePreservesSelected ==
    JustToggled =>
        LET t == toggles[Len(toggles)]
        IN /\ Len(fcurves) = Len(t.before)
           /\ \A c \in 1..Len(t.before) :
                 /\ Len(fcurves[c].kfs) = Len(t.before[c].kfs)
                 /\ \A i \in 1..Len(t.before[c].kfs) :
                       KfSelected(fcurves[c].kfs[i]) = KfSelected(t.before[c].kfs[i])
                 /\ c \notin Batch(t.before) => fcurves[c] = t.before[c]

(* A toggle that changed a batch channel holding a selected and an         *)
(* unselected point, while a channel outside the batch has a selected      *)
(* point.                                                                  *)
C37_Witness ==
    /\ JustToggled
    /\ LET t == toggles[Len(toggles)]
       IN /\ \E c \in Batch(t.before) :
                /\ fcurves[c] # t.before[c]
                /\ \E i, j \in 1..Len(t.before[c].kfs) :
                      /\ KfSelected(t.before[c].kfs[i])
                      /\ ~KfSelected(t.before[c].kfs[j])
          /\ \E c \in (1..Len(t.before)) \ Batch(t.before) :
                \E i \in 1..Len(t.before[c].kfs) : KfSelected(t.before[c].kfs[i])

----------------------------------------------------------------------------
(* Move ordering *)

CpIndices(kfs) == {i \in 1..Len(kfs) : kfs[i].cp}

SelIndices(kfs) == {i \in 1..Len(kfs) : KfSelected(kfs[i])}

StrictlyIncreasing(kfs) ==
    \A i \in 1..(Len(kfs) - 1) : kfs[i].t < kfs[i + 1].t

(* The index a point hands its selection to: its successor when moving     *)
(* forward, its predecessor when moving backward, itself at the end of the *)
(* channel                                                                 *)
Neighbour(i, n, direction) ==
    IF direction = "forward" THEN (IF i < n THEN i + 1 ELSE i)
    ELSE (IF i > 1 THEN i - 1 ELSE i)

EndPoint(n, direction) == IF direction = "forward" THEN n ELSE 1

(* before and after are the points of one channel around a move *)
ShiftedByOne(before, after, direction) ==
    LET n == Len(before)
    IN /\ CpIndices(after) = {Neighbour(i, n, direction) : i \in CpIndices(before)}
       /\ EndPoint(n, direction) \notin SelIndices(before) =>
             Cardinality(SelIndices(after)) = Cardinality(SelIndices(before))
       /\ EndPoint(n, direction) \in SelIndices(before) =>
             EndPoint(n, direction) \in SelIndices(after)

(* C38: a horizontal move without extend on a selected channel with        *)
(* strictly increasing integer times shifts the selection by one point in  *)
(* the direction of the move: the control-selected indices {i} become      *)
(* {i + 1} forward and {i - 1} backward, a selected point at the end of    *)
(* the channel stays selected, and the number of selected points is kept   *)
(* when the end point is not selected.                                     *)
C38_HorizontalShift ==
    [][\A direction \in {"forward", "backward"} :
          (/\ last'.op = "horizontal" /\ nOps' = nOps + 1 /\ ~last'.extend
           /\ fcurves' = move_keyframe_selection_horizontally(fcurves, direction, FALSE))
          => \A c \in 1..Len(fcurves) :
                (fcurves[c].select /\ StrictlyIncreasing(fcurves[c].kfs))
                    => ShiftedByOne(fcurves[c].kfs, fcurves'[c].kfs, direction)]_vars

VisibleList(fc) == ChannelList(get_visible_fcurves(fc), 1, Len(fc))

(* The positions, in the list V of visible channels, of the selected ones *)
SelectedPositions(fc, V) == {i \in 1..Len(V) : fc[V[i]].select}

HorizontalOf(direction) == IF direction = "downward" THEN "forward" ELSE "backward"

(* before and after are the documents around a move of the channel         *)
(* selection in the given direction                                        *)
ChannelsShiftedByOne(before, after, direction) ==
    LET V == VisibleList(before)
        n == Len(V)
        S == SelectedPositions(before, V)
        end == EndPoint(n, HorizontalOf(direction))
        source(i) == IF direction = "downward" THEN i - 1 ELSE i + 1
    IN /\ SelectedPositions(after, V)
            = {Neighbour(i, n, HorizontalOf(direction)) : i \in S}
       /\ end \notin S =>
             Cardinality(SelectedPositions(after, V)) = Cardinality(S)
       /\ end \in S => end \in SelectedPositions(after, V)
       /\ \A i \in S :
             (i # end /\ source(i) \notin S)
                 => CpIndices(after[V[i]].kfs) = {}

(* C39: a move of the channel selection without extend shifts it by one    *)
(* visible channel in the direction of the move: the selected positions    *)
(* {i} become {i + 1} downward and {i - 1} upward, a selected channel at   *)
(* the end of the list stays selected, the number of selected channels is  *)
(* kept when the end channel is not selected, and a moved channel that     *)
(* receives nothing keeps no control-selected point.                       *)
C39_VerticalShift ==
    [][\A direction \in {"downward", "upward"} :
          (/\ last'.op = "channels" /\ nOps' = nOps + 1 /\ ~last'.extend
           /\ fcurves' = move_channel_selection_vertically(fcurves, direction,
                                                           FALSE).fc)
          => ChannelsShiftedByOne(fcurves, fcurves', direction)]_vars

====
